---- MODULE Spec2Model ----
(***************************************************************************)
(* PersonalMedia: the media source adapters (Spotify, YouTube, Podcast),   *)
(* their update detection (checkForUpdates), the podcast listing           *)
(* pagination, and the playback queue / update-entry scheduler.            *)
(*                                                                         *)
(* Asynchronous methods are cut at their awaits: one action starts a call  *)
(* (everything up to the first request), one action per settled request.   *)
(* The three sources are separate objects that share no state: a behaviour *)
(* drives one of them, `source`, chosen when the session starts.           *)
(***************************************************************************)
EXTENDS Integers, Sequences, FiniteSets, TLC

(***************************************************************************)
(* Bounds of the model.                                                    *)
(***************************************************************************)
\* Item identifiers the provider can publish are 1..MaxGuid.
MaxGuid == 3
\* Longest listing a provider serves.
MaxLen == 3
\* Page requests one update walk may issue in the model.
MaxWalk == 4

(***************************************************************************)
(* Program constants.                                                      *)
(***************************************************************************)
\* YouTubeSource.fetchUpdatesSince asks for pages of 20 items.
UpdatePageLimit == 20

VARIABLES
    source,                 \* the media source this session drives
    server,                 \* the provider's listing of the polled collection, as served
    spotifyToken,           \* SpotifySource.accessToken
    ytToken,                \* YouTubeSource.accessToken
    uploadsPlaylistCache,   \* YouTubeSource.uploadsPlaylistCache
    feeds,                  \* PodcastSource.feeds (a Map: insertion ordered)
    podCall,                \* the PodcastSource call awaiting its fetch
    ytCall,                 \* the YouTubeSource call awaiting a response
    last,                   \* the most recently settled call
    prev,                   \* the call settled before it
    walk,                   \* a client following nextCursor through a podcast listing
    queue,                  \* the playback queue: its media items in play order
    current,                \* index of the item now playing (0: idle)
    segs,                   \* interruptions whose resumption item has not been reached
    qlast,                  \* the queue operation performed last
    entry,                  \* the persisted UpdateEntry: lastSeenItemId, lastChecked
    sched,                  \* the scheduler's state for the entry (in memory)
    clock,                  \* the time, in timer periods
    issued,                 \* how many items the provider has published so far
    inserted,               \* per item, how often the scheduler put it into the queue
    stale,                  \* a check ran whose lastSeenItemId the feed no longer listed
    calls,                  \* the listing calls on the Spotify or YouTube source, by caller
    resolved,               \* channel resolutions answered with an uploads playlist so far
    corsProxyUrl,           \* PodcastSource.corsProxyUrl
    feedOp,                 \* the PodcastSource operation that returned or settled last
    parsed,                 \* the latest parse: its input and what it produced
    recent,                 \* the latest getRecentMedia call: its arguments and its page
    storedTokens,           \* localStorage['youtube_tokens']
    codeVerifier,           \* sessionStorage['youtube_code_verifier']
    now,                    \* Date.now(), in milliseconds
    auth,                   \* the calls of the YouTube auth module in flight, by caller
    authLast,               \* the call of the auth module that settled last
    props,                  \* useRecentMedia: the source and limit of the latest render
    hook,                   \* useRecentMedia: its state and lastSourceRef
    view,                   \* what the latest render's loadMore closed over
    pending,                \* getRecentMedia requests of the hook not yet settled
    effect,                 \* the effect's registered cleanup, and requests issued so far
    hookLast                \* what the hook did last: a loadMore call or a settled request

envVars == <<source, server>>
spotifyVars == <<spotifyToken>>
ytVars == <<ytToken, uploadsPlaylistCache, ytCall>>
podVars == <<feeds, podCall>>
histVars == <<last, prev>>
pagingVars == <<walk>>
queueVars == <<queue, current, segs, qlast>>
schedVars == <<entry, sched, clock, issued, inserted, stale>>
apiVars == <<calls, resolved>>
feedVars == <<corsProxyUrl, feedOp>>
parseVars == <<parsed, recent>>
authVars == <<storedTokens, codeVerifier, now, auth, authLast>>
hookVars == <<props, hook, view, pending, effect, hookLast>>
clientVars == <<authVars, hookVars>>
otherVars == <<apiVars, feedVars, parseVars, clientVars>>
appVars == <<pagingVars, queueVars, schedVars, apiVars, feedVars, parseVars, clientVars>>

vars == <<envVars, spotifyVars, ytVars, podVars, histVars, appVars>>

(***************************************************************************)
(* Values.                                                                 *)
(***************************************************************************)
Guids == 1..MaxGuid
\* lastSeenItemId arguments: every identifier, and one no provider ever published.
Markers == 1..(MaxGuid + 1)
Tokens == {"null", "tok"}
FeedUrl == "feed1"
ChannelId == "UC1"
UploadsId == "UU1"
PlaylistId == "pl1"
Adapters == {"spotify", "podcast", "youtube"}
CollectionOf(a) ==
    CASE a = "spotify" -> PlaylistId
      [] a = "podcast" -> FeedUrl
      [] a = "youtube" -> ChannelId

NoCall == [pc |-> "idle"]
NoResult == [outcome |-> "none"]
NoWalk == [pc |-> "idle"]
NoOp == [op |-> "none"]
\* useRecentMedia when it mounts: useState and useRef initial values.
NoItems == [items |-> <<>>, isLoading |-> FALSE, error |-> "null", nextCursor |-> <<>>,
            lastSource |-> "null"]
\* localStorage without the 'youtube_tokens' key.
NoTokens == [stored |-> FALSE]
\* Two callers suffice for every interleaving of a call with another.
Callers == {"a", "b"}
NoCheck == [pc |-> "idle", outcome |-> "none"]
\* An UpdateEntry as created: the empty lastSeenItemId, never checked.
NewEntry == [lastSeenItemId |-> 0, lastChecked |-> 0]

\* What the provider publishes under identifier g: its id and its publication time.
Published(g) == [guid |-> g, publishedAt |-> g]

(***************************************************************************)
(* Sequences.                                                              *)
(***************************************************************************)
\* Mutant: the candidates are returned as accumulated, newest first.
NotReversed(s) == s

\* Array.prototype.reverse
Reverse(s) == [i \in 1..Len(s) |-> s[Len(s) + 1 - i]]

\* Array.prototype.slice(from, to), 0-based, to exclusive
Slice(s, from, to) ==
    LET lo == IF from > Len(s) THEN Len(s) ELSE from
        hi == IF to > Len(s) THEN Len(s) ELSE to
    IN  IF hi <= lo THEN <<>> ELSE SubSeq(s, lo + 1, hi)

(***************************************************************************)
(* MediaSource: the capability flags and the checkForUpdates gate.         *)
(***************************************************************************)
\* Mutant: every source declared an update source.
IsUpdateSourceEverywhere(a) == TRUE

IsUpdateSource(a) ==
    CASE a = "spotify" -> FALSE
      [] a = "podcast" -> TRUE
      [] a = "youtube" -> TRUE

(***************************************************************************)
(* The scan of fetchUpdatesSince: push the items of a page onto the        *)
(* accumulator until one has the id lastSeenItemId.                        *)
(***************************************************************************)
RECURSIVE ScanFrom(_, _, _, _)
ScanFrom(items, lastSeenItemId, i, acc) ==
    IF i > Len(items) THEN [found |-> FALSE, items |-> acc]
    ELSE IF items[i].id = lastSeenItemId THEN [found |-> TRUE, items |-> acc]
    ELSE ScanFrom(items, lastSeenItemId, i + 1, Append(acc, items[i]))

\* Mutant: the scan does not stop at lastSeenItemId.
ScanPageWithoutBreak(items, lastSeenItemId, acc) ==
    [found |-> \E i \in 1..Len(items) : items[i].id = lastSeenItemId,
     items |-> acc \o items]

ScanPage(items, lastSeenItemId, acc) == ScanFrom(items, lastSeenItemId, 1, acc)

\* PodcastSource.mapEpisode
MapEpisode(ep) == [id |-> ep.guid, source |-> "podcast", publishedAt |-> ep.publishedAt]

\* episodes.map(mapEpisode)
MapEpisodes(eps) == [i \in 1..Len(eps) |-> MapEpisode(eps[i])]

\* YouTubeSource.mapPlaylistItem
MapPlaylistItem(it) == [id |-> it.guid, source |-> "youtube", publishedAt |-> it.publishedAt]

\* data.items.map(mapPlaylistItem)
MapPlaylistItems(items) == [i \in 1..Len(items) |-> MapPlaylistItem(items[i])]

(***************************************************************************)
(* PodcastSource.feeds: a Map from feed URL to feed, in insertion order.   *)
(***************************************************************************)
FeedIndex(fs, url) ==
    IF \E i \in 1..Len(fs) : fs[i].key = url
    THEN CHOOSE i \in 1..Len(fs) : fs[i].key = url
    ELSE 0

\* An entry of the Map: the feed under its key.
Entry(key, feed) == [key |-> key, url |-> feed.url, episodes |-> feed.episodes]

\* Map.prototype.set: an existing key keeps its place, a new one goes last.
MapSet(fs, url, feed) ==
    IF FeedIndex(fs, url) = 0 THEN Append(fs, Entry(url, feed))
    ELSE [fs EXCEPT ![FeedIndex(fs, url)] = Entry(url, feed)]

\* Map.prototype.delete
MapDelete(fs, url) ==
    IF FeedIndex(fs, url) = 0 THEN fs
    ELSE [i \in 1..(Len(fs) - 1) |->
            IF i < FeedIndex(fs, url) THEN fs[i] ELSE fs[i + 1]]

\* parseRssFeed, for a document with a channel: the feed keeps the URL it was asked for.
ParsedFeed(feedUrl, doc) == [url |-> feedUrl, episodes |-> doc]

(***************************************************************************)
(* The record of a settled call.                                           *)
(***************************************************************************)
Settled(a, coll, marker, outcome, result, requests, delegated) ==
    [adapter |-> a, op |-> "checkForUpdates", coll |-> coll, marker |-> marker,
     outcome |-> outcome, result |-> result, requests |-> requests,
     delegated |-> delegated, found |-> FALSE, pages |-> 0]

\* What is kept of the call settled before the latest one: a resolved call's
\* arguments and result.
Earlier(r) ==
    IF r.outcome = "ok"
    THEN [outcome |-> "ok", adapter |-> r.adapter, coll |-> r.coll,
          marker |-> r.marker, result |-> r.result]
    ELSE NoResult

(***************************************************************************)
(* The provider. Its listing changes between calls, not while one is in    *)
(* flight: a call sees one listing throughout.                             *)
(***************************************************************************)
\* A new item appears at the head of the listing.
Publish(g) ==
    /\ podCall.pc = "idle" /\ ytCall.pc = "idle"
    /\ Len(server) < MaxLen
    /\ server' = <<Published(g)>> \o server
    /\ last' = NoResult
    /\ prev' = NoResult
    /\ UNCHANGED <<source, spotifyVars, ytVars, podVars, appVars>>

\* An item is withdrawn from the listing.
Withdraw(i) ==
    /\ podCall.pc = "idle" /\ ytCall.pc = "idle"
    /\ i \in 1..Len(server)
    /\ server' = SubSeq(server, 1, i - 1) \o SubSeq(server, i + 1, Len(server))
    /\ last' = NoResult
    /\ prev' = NoResult
    /\ UNCHANGED <<source, spotifyVars, ytVars, podVars, appVars>>

(***************************************************************************)
(* SpotifySource.                                                          *)
(***************************************************************************)
SpotifySetAccessToken(t) ==
    /\ source = "spotify"
    /\ spotifyToken' = t
    /\ UNCHANGED <<envVars, ytVars, podVars, histVars, appVars>>

\* MediaSource.checkForUpdates on SpotifySource: the gate, then the base class's
\* fetchUpdatesSince, which SpotifySource does not override.
SpotifyCheckForUpdates(coll, marker) ==
    /\ source = "spotify"
    /\ last' = IF ~IsUpdateSource("spotify")
               THEN Settled("spotify", coll, marker, "unsupported", <<>>, 0, FALSE)
               ELSE Settled("spotify", coll, marker, "ok", <<>>, 0, TRUE)
    /\ prev' = Earlier(last)
    /\ UNCHANGED <<envVars, spotifyVars, ytVars, podVars, appVars>>

(***************************************************************************)
(* PodcastSource.checkForUpdates.                                          *)
(***************************************************************************)
\* The gate, fetchUpdatesSince, refreshFeed, fetchAndParseFeed up to its fetch.
PodcastCheckForUpdates(url, marker) ==
    /\ source = "podcast"
    /\ podCall.pc = "idle"
    /\ prev' = Earlier(last)
    /\ IF ~IsUpdateSource("podcast")
       THEN /\ last' = Settled("podcast", url, marker, "unsupported", <<>>, 0, FALSE)
            /\ UNCHANGED podCall
       ELSE /\ podCall' = [pc |-> "fetch", op |-> "checkForUpdates", url |-> url,
                           marker |-> marker, requests |-> 1]
            /\ last' = NoResult
    /\ UNCHANGED <<envVars, spotifyVars, ytVars, feeds, appVars>>

\* fetchUpdatesSince after refreshFeed has stored the feed.
PodcastUpdatesIn(feed, lastSeenItemId) ==
    Reverse(ScanPage(MapEpisodes(feed.episodes), lastSeenItemId, <<>>).items)

\* The fetch settles: a response that is not ok rejects the call; otherwise the
\* document is parsed, stored under the URL and scanned.
PodcastFetchSettles(ok) ==
    /\ podCall.pc = "fetch"
    /\ podCall.op = "checkForUpdates"
    /\ IF ok
       THEN LET feed == ParsedFeed(podCall.url, server)
            IN  /\ feeds' = MapSet(feeds, podCall.url, feed)
                /\ last' = Settled("podcast", podCall.url, podCall.marker, "ok",
                                   PodcastUpdatesIn(feed, podCall.marker),
                                   podCall.requests, TRUE)
       ELSE /\ feeds' = feeds
            /\ last' = Settled("podcast", podCall.url, podCall.marker, "error", <<>>,
                               podCall.requests, TRUE)
    /\ podCall' = NoCall
    /\ UNCHANGED <<envVars, spotifyVars, ytVars, prev, appVars>>

(***************************************************************************)
(* YouTubeSource.checkForUpdates: the walk of fetchUpdatesSince over       *)
(* getCollectionItems, getUploadsPlaylistId and fetchApi.                  *)
(***************************************************************************)
YouTubeSetAccessToken(t) ==
    /\ source = "youtube"
    /\ ytToken' = t
    /\ UNCHANGED <<envVars, spotifyVars, uploadsPlaylistCache, ytCall, podVars, histVars, appVars>>

\* Mutant: a failure ends the call with what it has gathered so far.
Swallowed(call, failure) ==
    [done |-> TRUE, outcome |-> "ok", result |-> Reverse(call.allNew), call |-> call]

\* A throw inside the call: nothing catches it, the promise rejects.
Rejected(call, failure) ==
    [done |-> TRUE, outcome |-> failure, result |-> <<>>, call |-> call]

\* fetchApi up to its fetch: without a token it throws, otherwise the request is
\* issued and the call awaits the response at `pc`.
YtFetchApi(call, pc) ==
    IF ytToken \in {"null", ""}
    THEN Rejected(call, "unauthenticated")
    ELSE [done |-> FALSE, outcome |-> "pending", result |-> <<>>,
          call |-> [call EXCEPT !.pc = pc, !.requests = @ + 1]]

\* getCollectionItems up to its first request: a cached channel goes straight to
\* the playlistItems request, an unknown one to the channels request.
YtGetCollectionItems(call, cache) ==
    IF cache[call.coll] # ""
    THEN YtFetchApi(call, "page")
    ELSE YtFetchApi(call, "channels")

\* The call either awaits its next response or settles.
YtProceed(step) ==
    IF step.done
    THEN /\ ytCall' = NoCall
         /\ last' = [Settled("youtube", step.call.coll, step.call.marker, step.outcome,
                             step.result, step.call.requests, TRUE)
                     EXCEPT !.found = step.call.found, !.pages = step.call.pages]
    ELSE /\ ytCall' = step.call
         /\ last' = NoResult

YouTubeCheckForUpdates(coll, marker) ==
    /\ source = "youtube"
    /\ ytCall.pc = "idle"
    /\ prev' = Earlier(last)
    /\ IF ~IsUpdateSource("youtube")
       THEN /\ last' = Settled("youtube", coll, marker, "unsupported", <<>>, 0, FALSE)
            /\ UNCHANGED ytCall
       ELSE YtProceed(YtGetCollectionItems(
                [pc |-> "start", coll |-> coll, marker |-> marker, cursor |-> <<>>,
                 allNew |-> <<>>, found |-> FALSE, pages |-> 0, requests |-> 0],
                uploadsPlaylistCache))
    /\ UNCHANGED <<envVars, spotifyVars, ytToken, uploadsPlaylistCache, podVars, appVars>>

\* The channels response: not ok, no such channel, or the uploads playlist, which
\* is cached before the playlistItems request is made.
YouTubeChannelsResponse(resp) ==
    /\ ytCall.pc = "channels"
    /\ CASE resp = "error" ->
              /\ YtProceed(Rejected(ytCall, "error"))
              /\ UNCHANGED uploadsPlaylistCache
         [] resp = "empty" ->
              /\ YtProceed(Rejected(ytCall, "notfound"))
              /\ UNCHANGED uploadsPlaylistCache
         [] resp = "ok" ->
              /\ uploadsPlaylistCache' = [uploadsPlaylistCache EXCEPT ![ytCall.coll] = UploadsId]
              /\ YtProceed(YtFetchApi(ytCall, "page"))
    /\ UNCHANGED <<envVars, spotifyVars, ytToken, podVars, prev, appVars>>

\* The page the provider serves for a page token: `size` items from the token's
\* offset, and a token for the next page while items remain (or, from a provider
\* that never ends its listing, `endless`, on every page).
YtProviderPage(cursor, size, endless) ==
    LET offset == IF cursor = <<>> THEN 0 ELSE cursor[1]
    IN  [items |-> Slice(server, offset, offset + size),
         nextPageToken |-> IF offset + size < Len(server) \/ endless
                           THEN <<offset + size>> ELSE <<>>]

\* One turn of the loop of fetchUpdatesSince on the page getCollectionItems returned.
YtScanned(call, page) ==
    LET scan == ScanPage(page.items, call.marker, call.allNew)
    IN  [call EXCEPT !.allNew = scan.items, !.found = scan.found,
                     !.pages = @ + 1,
                     !.cursor = IF ~scan.found /\ page.nextCursor # <<>>
                                THEN page.nextCursor ELSE @]

\* Mutant: the loop goes on while the provider offers another page.
YtLoopsOnWhileMore(call, page) == page.nextCursor # <<>>

\* Whether the loop goes round again after this page.
YtLoopsOn(call, page) == ~call.found /\ page.nextCursor # <<>>

\* The playlistItems response.
YouTubePageResponse(ok, size, endless) ==
    /\ ytCall.pc = "page"
    /\ size <= UpdatePageLimit
    /\ endless => ytCall.pages + 1 < MaxWalk
    /\ IF ~ok
       THEN YtProceed(Rejected(ytCall, "error"))
       ELSE LET data == YtProviderPage(ytCall.cursor, size, endless)
                page == [items |-> MapPlaylistItems(data.items),
                         nextCursor |-> data.nextPageToken]
                call == YtScanned(ytCall, page)
            IN  IF YtLoopsOn(call, page)
                THEN YtProceed(YtGetCollectionItems(call, uploadsPlaylistCache))
                ELSE YtProceed([done |-> TRUE, outcome |-> "ok",
                                result |-> Reverse(call.allNew), call |-> call])
    /\ UNCHANGED <<envVars, spotifyVars, ytToken, uploadsPlaylistCache, podVars, prev, appVars>>

(***************************************************************************)
(* The update-detection specification: the three adapters' checkForUpdates *)
(* against a provider whose listing changes.                               *)
(***************************************************************************)
Init ==
    /\ source \in Adapters
    /\ server = <<>>
    /\ spotifyToken = "null"
    /\ ytToken = "null"
    /\ uploadsPlaylistCache = [c \in {ChannelId} |-> ""]
    /\ feeds = <<>>
    /\ podCall = NoCall
    /\ ytCall = NoCall
    /\ last = NoResult
    /\ prev = NoResult
    /\ walk = NoWalk
    /\ queue = <<>>
    /\ current = 0
    /\ segs = {}
    /\ qlast = NoOp
    /\ entry = NewEntry
    /\ sched = NoCheck
    /\ clock = 0
    /\ issued = 0
    /\ inserted = [g \in Guids |-> 0]
    /\ stale = FALSE
    /\ calls = [c \in Callers |-> NoCall]
    /\ resolved = 0
    /\ corsProxyUrl = "null"
    /\ feedOp = NoOp
    /\ parsed = NoOp
    /\ recent = NoCall
    /\ storedTokens = NoTokens
    /\ codeVerifier = "null"
    /\ now = 0
    /\ auth = [c \in Callers |-> NoCall]
    /\ authLast = NoOp
    /\ props = [source |-> "null", limit |-> 20]
    /\ hook = NoItems
    /\ view = [source |-> "null", limit |-> 20, nextCursor |-> <<>>, isLoading |-> FALSE]
    /\ pending = {}
    /\ effect = [cleanup |-> 0, requests |-> 0]
    /\ hookLast = NoOp

NextUpdates ==
    \/ \E g \in Guids : Publish(g)
    \/ \E i \in 1..MaxLen : Withdraw(i)
    \/ \E t \in Tokens : SpotifySetAccessToken(t)
    \/ \E m \in Markers : SpotifyCheckForUpdates(PlaylistId, m)
    \/ \E m \in Markers : PodcastCheckForUpdates(FeedUrl, m)
    \/ \E ok \in BOOLEAN : PodcastFetchSettles(ok)
    \/ \E t \in Tokens : YouTubeSetAccessToken(t)
    \/ \E m \in Markers : YouTubeCheckForUpdates(ChannelId, m)
    \/ \E resp \in {"ok", "error", "empty"} : YouTubeChannelsResponse(resp)
    \/ \E ok \in BOOLEAN, size \in 1..MaxLen, endless \in BOOLEAN :
          YouTubePageResponse(ok, size, endless)

SpecUpdates == Init /\ [][NextUpdates]_vars

(***************************************************************************)
(* Properties of update detection (SpecUpdates).                           *)
(***************************************************************************)
LastIs(a) == last.outcome # "none" /\ last.adapter = a
LastResolved == last.outcome = "ok"
ServerGuids == {server[i].guid : i \in 1..Len(server)}
\* Position of the first item of the listing with identifier m (0: none).
FirstAt(m) ==
    IF m \in ServerGuids
    THEN CHOOSE i \in 1..Len(server) :
            server[i].guid = m /\ \A j \in 1..(i - 1) : server[j].guid # m
    ELSE 0

\* C1: checkForUpdates on SpotifySource (isUpdateSource false) rejects as
\* unsupported for every pair of arguments and every token state, without
\* calling fetchUpdatesSince and without a network request.
C1_SpotifyUnsupported ==
    LastIs("spotify") =>
        /\ last.outcome = "unsupported"
        /\ ~last.delegated
        /\ last.requests = 0

C1_Witness ==
    /\ LastIs("spotify")
    /\ last.outcome = "unsupported"
    /\ spotifyToken = "tok"
    /\ last.marker \in ServerGuids

\* C2: PodcastSource.checkForUpdates returns the empty sequence whenever
\* lastSeenItemId is the guid of no episode of the freshly fetched feed.
C2_PodcastUnknownMarkerEmpty ==
    (LastIs("podcast") /\ LastResolved /\ last.marker \notin ServerGuids)
        => last.result = <<>>

\* C3: when lastSeenItemId occurs in the listing, checkForUpdates of
\* PodcastSource and YouTubeSource returns exactly the items before the marker's
\* first occurrence, reversed, without the marker and nothing after it, also
\* when YouTube finds the marker on a later page.
C3_ItemsBeforeMarkerReversed ==
    (LastResolved /\ last.marker \in ServerGuids) =>
        LET at == FirstAt(last.marker)
        IN  /\ Len(last.result) = at - 1
            /\ \A k \in 1..(at - 1) :
                  /\ last.result[k].id = server[at - k].guid
                  /\ last.result[k].publishedAt = server[at - k].publishedAt
                  /\ last.result[k].id # last.marker

C3_Witness ==
    /\ LastIs("youtube")
    /\ LastResolved
    /\ last.found
    /\ last.pages >= 2
    /\ Len(last.result) >= 2
    /\ last.result[1].id # last.result[2].id

\* C4: the result of checkForUpdates is ordered oldest first by publishedAt,
\* whatever order the provider lists its items in. (Stated here for the calls
\* whose marker is in the listing.)
C4_OldestFirst ==
    (LastResolved /\ last.marker \in ServerGuids) =>
        \A k \in 1..(Len(last.result) - 1) :
            last.result[k].publishedAt <= last.result[k + 1].publishedAt

\* C5 as stated: a second checkForUpdates with the same lastSeenItemId, with
\* nothing published in between, returns the empty sequence.
C5_SecondCallEmpty ==
    (LastResolved /\ prev.outcome = "ok" /\ prev.coll = last.coll
        /\ prev.marker = last.marker)
        => last.result = <<>>

\* C5 amended: with nothing published in between, a second checkForUpdates with
\* the same lastSeenItemId returns the same items again, and it returns the
\* empty sequence once lastSeenItemId is the id of the newest item the first
\* call returned.
C5_SecondCallAfterAdvance ==
    (LastResolved /\ prev.outcome = "ok" /\ prev.coll = last.coll) =>
        /\ prev.marker = last.marker => last.result = prev.result
        /\ (prev.result # <<>> /\ last.marker = prev.result[Len(prev.result)].id)
              => last.result = <<>>

C5_Witness ==
    /\ LastResolved
    /\ prev.outcome = "ok"
    /\ Len(prev.result) >= 2
    /\ last.marker = prev.result[Len(prev.result)].id
    /\ last.marker # prev.marker
    /\ last.result = <<>>

\* C6: YouTubeSource.checkForUpdates that never meets lastSeenItemId stops at a
\* page cap and returns the empty sequence, not the items accumulated.
C6_YouTubeNotFoundEmpty ==
    (LastIs("youtube") /\ LastResolved /\ ~last.found) => last.result = <<>>

(***************************************************************************)
(* PodcastSource listings: getAvailableMedia, getCollectionItems and       *)
(* getRecentMedia page through in-memory arrays with an offset cursor.     *)
(***************************************************************************)
\* Longest episode list of a persisted or fetched feed.
MaxEps == 2

\* getCollectionItems and getRecentMedia default to pages of 20.
DefaultLimit == 20

FeedUrls == {"feed1", "feed2"}

\* An episode as persisted or parsed: the first identifier stands for an episode
\* without a pubDate (publishedAt undefined, 0 here), the others carry a date.
Episode(g) == [guid |-> g, publishedAt |-> g - 1]

EpisodeLists == UNION {[1..n -> {Episode(g) : g \in Guids}] : n \in 0..MaxEps}

\* The `since` arguments: 0 is undefined, the others are dates.
Sinces == 0..(MaxGuid - 1)

\* String(n) of a natural number: its decimal digits.
RECURSIVE StringOf(_)
StringOf(n) == IF n < 10 THEN <<n>> ELSE Append(StringOf(n \div 10), n % 10)

RECURSIVE ParseDigits(_, _, _)
ParseDigits(s, i, acc) ==
    IF i > Len(s) THEN acc ELSE ParseDigits(s, i + 1, acc * 10 + s[i])

\* parseInt(s, 10) of a string of digits
ParseInt(s) == ParseDigits(s, 1, 0)

\* FetchMediaOptions: an absent limit or cursor is the empty sequence.
Options(limit, cursor) == [limit |-> limit, cursor |-> cursor]

\* options?.limit ?? dflt
LimitOf(options, dflt) == IF options.limit = <<>> THEN dflt ELSE options.limit[1]

\* options?.cursor ? parseInt(options.cursor, 10) : 0
OffsetOf(options) == IF options.cursor # <<>> THEN ParseInt(options.cursor) ELSE 0

\* Mutant: hasMore also when the page ends exactly at the end of the array.
PaginateInclusive(all, limit, offset) ==
    [items |-> Slice(all, offset, offset + limit),
     nextCursor |-> IF offset + limit <= Len(all) THEN StringOf(offset + limit) ELSE <<>>,
     total |-> Len(all)]

\* page, hasMore and the PaginatedResult the three methods build alike
Paginate(all, limit, offset) ==
    [items |-> Slice(all, offset, offset + limit),
     nextCursor |-> IF offset + limit < Len(all) THEN StringOf(offset + limit) ELSE <<>>,
     total |-> Len(all)]

\* PodcastSource.mapFeedToCollection
MapFeedToCollection(feed) ==
    [id |-> feed.url, source |-> "podcast", itemCount |-> Len(feed.episodes)]

MapFeeds(fs) == [i \in 1..Len(fs) |-> MapFeedToCollection(fs[i])]

\* getAvailableMedia: a page of Array.from(this.feeds.values())
AvailableMedia(fs, options) ==
    LET page == Paginate(fs, LimitOf(options, Len(fs)), OffsetOf(options))
    IN  [page EXCEPT !.items = MapFeeds(@)]

\* getCollectionItems once the feed is at hand: a page of feed.episodes
CollectionItems(feed, options) ==
    LET page == Paginate(feed.episodes, LimitOf(options, DefaultLimit), OffsetOf(options))
    IN  [page EXCEPT !.items = MapEpisodes(@)]

\* getRecentMedia skips an episode that has a date not after `since`.
NotSince(ep, since) == since # 0 /\ ep.publishedAt # 0 /\ ep.publishedAt <= since

\* The episodes of feeds i.. in Map order, without the skipped ones.
RECURSIVE EpisodesFrom(_, _, _)
EpisodesFrom(fs, i, since) ==
    IF i > Len(fs) THEN <<>>
    ELSE SelectSeq(fs[i].episodes, LAMBDA ep : ~NotSince(ep, since))
            \o EpisodesFrom(fs, i + 1, since)

\* Where a stable sort by descending publishedAt ('' for none) puts ep in a
\* sorted array: after every element that does not sort after it.
InsertNewestFirst(sorted, ep) ==
    LET k == Cardinality({i \in 1..Len(sorted) : sorted[i].publishedAt >= ep.publishedAt})
    IN  SubSeq(sorted, 1, k) \o <<ep>> \o SubSeq(sorted, k + 1, Len(sorted))

\* allEpisodes.sort((a, b) => bDate.localeCompare(aDate))
RECURSIVE SortNewestFirst(_)
SortNewestFirst(s) ==
    IF s = <<>> THEN <<>>
    ELSE InsertNewestFirst(SortNewestFirst(SubSeq(s, 1, Len(s) - 1)), s[Len(s)])

\* getRecentMedia: a page of the sorted episodes of all feeds
RecentMedia(fs, since, options) ==
    LET allEpisodes == SortNewestFirst(EpisodesFrom(fs, 1, since))
        page == Paginate(allEpisodes, LimitOf(options, DefaultLimit), OffsetOf(options))
    IN  [page EXCEPT !.items = MapEpisodes(@)]

\* this.feeds.set(feed.url, feed) for each feed of the array, from the i-th on
RECURSIVE SetAll(_, _, _)
SetAll(fs, list, i) ==
    IF i > Len(list) THEN fs
    ELSE SetAll(MapSet(fs, list[i].url, list[i]), list, i + 1)

(***************************************************************************)
(* The feed set changes by restoreFeeds and removeFeed; a client pages     *)
(* through one listing by handing each nextCursor back (as loadMore of     *)
(* useRecentMedia does). A change of the feed set ends the client's walk.  *)
(***************************************************************************)
PageLimits == 1..MaxLen

\* Pages after which the client gives up: more than any listing here needs.
PageCap == Cardinality(FeedUrls) * MaxEps + 2

BrowseRequests ==
    {[op |-> "getAvailableMedia", url |-> "", since |-> 0]}
        \cup {[op |-> "getCollectionItems", url |-> u, since |-> 0] : u \in FeedUrls}
        \cup {[op |-> "getRecentMedia", url |-> "", since |-> s] : s \in Sinces}

\* The walk once a page has arrived.
Followed(w, page) ==
    [w EXCEPT !.pc = IF page.nextCursor = <<>> THEN "done" ELSE "next",
              !.items = @ \o page.items,
              !.pages = @ + 1,
              !.total = page.total,
              !.cursor = page.nextCursor]

\* The walk after the feed set became fs.
WalkOver(fs) == IF fs = feeds THEN walk ELSE NoWalk

PodcastRestoreFeeds(list) ==
    /\ source = "podcast"
    /\ feeds' = SetAll(feeds, list, 1)
    /\ walk' = WalkOver(SetAll(feeds, list, 1))
    /\ UNCHANGED <<envVars, spotifyVars, ytVars, podCall, histVars, otherVars, queueVars, schedVars>>

PodcastRemoveFeed(url) ==
    /\ source = "podcast"
    /\ feeds' = MapDelete(feeds, url)
    /\ walk' = WalkOver(MapDelete(feeds, url))
    /\ UNCHANGED <<envVars, spotifyVars, ytVars, podCall, histVars, otherVars, queueVars, schedVars>>

\* The client asks for the first page of a listing.
Browse(request, limit) ==
    /\ source = "podcast"
    /\ walk.pc \in {"idle", "done", "failed"}
    /\ podCall.pc = "idle"
    /\ walk' = [pc |-> "next", op |-> request.op, url |-> request.url,
                since |-> request.since, limit |-> limit, cursor |-> <<>>,
                items |-> <<>>, pages |-> 0, total |-> 0]
    /\ UNCHANGED <<envVars, spotifyVars, ytVars, podVars, histVars, otherVars, queueVars, schedVars>>

PodcastGetAvailableMedia ==
    /\ walk.pc = "next" /\ walk.op = "getAvailableMedia"
    /\ walk.pages < PageCap
    /\ walk' = Followed(walk, AvailableMedia(feeds, Options(<<walk.limit>>, walk.cursor)))
    /\ UNCHANGED <<envVars, spotifyVars, ytVars, podVars, histVars, otherVars, queueVars, schedVars>>

\* getCollectionItems: a known feed is paged at once, an unknown one is fetched
\* first.
PodcastGetCollectionItems ==
    /\ walk.pc = "next" /\ walk.op = "getCollectionItems"
    /\ walk.pages < PageCap
    /\ podCall.pc = "idle"
    /\ IF FeedIndex(feeds, walk.url) # 0
       THEN /\ walk' = Followed(walk, CollectionItems(feeds[FeedIndex(feeds, walk.url)],
                                         Options(<<walk.limit>>, walk.cursor)))
            /\ UNCHANGED podCall
       ELSE /\ walk' = [walk EXCEPT !.pc = "await"]
            /\ podCall' = [pc |-> "fetch", op |-> "getCollectionItems", url |-> walk.url,
                           options |-> Options(<<walk.limit>>, walk.cursor), requests |-> 1]
    /\ UNCHANGED <<envVars, spotifyVars, ytVars, feeds, histVars, otherVars, queueVars, schedVars>>

\* The fetch of getCollectionItems settles: a response that is not ok rejects
\* the call; otherwise the parsed document is stored and paged.
PodcastItemsFetchSettles(ok, doc) ==
    /\ podCall.pc = "fetch"
    /\ podCall.op = "getCollectionItems"
    /\ IF ok
       THEN LET feed == ParsedFeed(podCall.url, doc)
            IN  /\ feeds' = MapSet(feeds, podCall.url, feed)
                /\ walk' = IF walk.pc = "await"
                           THEN Followed(walk, CollectionItems(feed, podCall.options))
                           ELSE walk
       ELSE /\ feeds' = feeds
            /\ walk' = IF walk.pc = "await" THEN [walk EXCEPT !.pc = "failed"] ELSE walk
    /\ podCall' = NoCall
    /\ UNCHANGED <<envVars, spotifyVars, ytVars, histVars, otherVars, queueVars, schedVars>>

PodcastGetRecentMedia ==
    /\ walk.pc = "next" /\ walk.op = "getRecentMedia"
    /\ walk.pages < PageCap
    /\ walk' = Followed(walk, RecentMedia(feeds, walk.since, Options(<<walk.limit>>, walk.cursor)))
    /\ UNCHANGED <<envVars, spotifyVars, ytVars, podVars, histVars, otherVars, queueVars, schedVars>>

InitPaging == Init /\ source = "podcast"

NextPaging ==
    \/ \E url \in FeedUrls, eps \in EpisodeLists :
          PodcastRestoreFeeds(<<[url |-> url, episodes |-> eps]>>)
    \/ \E url \in FeedUrls : PodcastRemoveFeed(url)
    \/ \E request \in BrowseRequests, limit \in PageLimits : Browse(request, limit)
    \/ PodcastGetAvailableMedia
    \/ PodcastGetCollectionItems
    \/ \E ok \in BOOLEAN, doc \in EpisodeLists : PodcastItemsFetchSettles(ok, doc)
    \/ PodcastGetRecentMedia

SpecPaging == InitPaging /\ [][NextPaging]_vars

(***************************************************************************)
(* Properties of the podcast listings (SpecPaging).                        *)
(***************************************************************************)
\* The listing's items in one call with limit = total and no cursor.
InOneCall(w) ==
    LET options == Options(<<w.total>>, <<>>)
    IN  CASE w.op = "getAvailableMedia" -> AvailableMedia(feeds, options)
          [] w.op = "getCollectionItems" ->
                CollectionItems(feeds[FeedIndex(feeds, w.url)], options)
          [] w.op = "getRecentMedia" -> RecentMedia(feeds, w.since, options)

\* C7: over an unchanged feed set and for every limit >= 1, following nextCursor
\* from no cursor until it is absent takes finitely many pages (as many as the
\* total needs, one for an empty listing); their items concatenated are the
\* items of one call with limit = total; and a page carries a nextCursor
\* exactly when items remain after it.
C7_PagesConcatenate ==
    /\ walk.pc = "done" =>
          /\ walk.items = InOneCall(walk).items
          /\ InOneCall(walk).nextCursor = <<>>
          /\ Len(walk.items) = walk.total
          /\ walk.pages >= 1
          /\ (walk.pages - 1) * walk.limit < walk.total \/ walk.pages = 1
    /\ (walk.pc = "next" /\ walk.pages > 0) =>
          /\ Len(walk.items) = walk.pages * walk.limit
          /\ Len(walk.items) < walk.total
          /\ walk.items = SubSeq(InOneCall(walk).items, 1, Len(walk.items))

C7_Witness ==
    /\ walk.pc = "done"
    /\ walk.op = "getRecentMedia"
    /\ walk.since # 0
    /\ walk.pages >= 3
    /\ Len(feeds) = 2
    /\ \E i, j \in 1..Len(walk.items) : walk.items[i].id # walk.items[j].id

(***************************************************************************)
(* The playback queue: an ordered sequence of media items and the index of *)
(* the one now playing. The repository documents the queue but holds no    *)
(* code for it; interrupt and advance are modelled as the specification    *)
(* defines them. An interrupt while the queue is idle (no current index)   *)
(* puts the items at the front.                                            *)
(***************************************************************************)
\* Items the user queues.
MaxQueued == 3
\* Longest newItems of one interrupt.
MaxInsert == 2

\* The n-th media item the user queued.
Queued(n) == [id |-> n, source |-> "spotify", publishedAt |-> 0]

\* The media item an update check returns for the published item g.
Update(g) == MapEpisode(Published(g))

ItemsOf(q) == {q[i] : i \in 1..Len(q)}

\* Mutant: interrupt appends at the tail.
InterruptedAtTail(q, cur, newItems) == q \o newItems

\* interrupt(newItems): the sequence with newItems spliced in right after index cur
Interrupted(q, cur, newItems) ==
    SubSeq(q, 1, cur) \o newItems \o SubSeq(q, cur + 1, Len(q))

\* Mutant: advance skips an item.
AdvancedSkipping(q, cur) == IF cur + 1 < Len(q) THEN cur + 2 ELSE 0

\* advance(): the index one further, idle past the last item
Advanced(q, cur) == IF cur < Len(q) THEN cur + 1 ELSE 0

\* The newItems an interrupt may bring into q: update items not yet queued.
NewItemSeqs(q) ==
    {ns \in UNION {[1..n -> {Update(g) : g \in Guids}] : n \in 0..MaxInsert} :
        /\ \A i, j \in 1..Len(ns) : i # j => ns[i] # ns[j]
        /\ \A i \in 1..Len(ns) : ns[i] \notin ItemsOf(q)}

\* The interruptions still awaiting their resumption item, after newItems went
\* in behind the current item: each has these items before its resumption item
\* too, and a non-empty newItems with an item Y behind the current X opens one.
SegsAfterInterrupt(newItems) ==
    {[s EXCEPT !.ins = @ \cup ItemsOf(newItems), !.alone = @ /\ newItems = <<>>] : s \in segs}
        \cup IF newItems # <<>> /\ current > 0 /\ current < Len(queue)
             THEN {[x |-> queue[current], resume |-> queue[current + 1],
                    items |-> newItems, ins |-> ItemsOf(newItems), alone |-> TRUE]}
             ELSE {}

\* Queue.interrupt(newItems)
InterruptTo(newItems) ==
    /\ queue' = Interrupted(queue, current, newItems)
    /\ current' = current
    /\ segs' = SegsAfterInterrupt(newItems)
    /\ qlast' = [op |-> "interrupt", newItems |-> newItems, queue |-> queue,
                 current |-> current]

Interrupt(newItems) ==
    /\ InterruptTo(newItems)
    /\ UNCHANGED <<envVars, spotifyVars, ytVars, podVars, histVars, otherVars, pagingVars, schedVars>>

\* The user adds an item at the end of the queue.
Enqueue ==
    LET n == Cardinality({i \in 1..Len(queue) : queue[i].source = "spotify"})
    IN  /\ n < MaxQueued
        /\ queue' = Append(queue, Queued(n + 1))
        /\ qlast' = [op |-> "enqueue"]
        /\ UNCHANGED <<current, segs>>
        /\ UNCHANGED <<envVars, spotifyVars, ytVars, podVars, histVars, otherVars, pagingVars, schedVars>>

\* Playback starts at the head of an idle queue.
Play ==
    /\ current = 0
    /\ queue # <<>>
    /\ current' = 1
    /\ segs' = {}
    /\ qlast' = [op |-> "play"]
    /\ UNCHANGED <<queue, envVars, spotifyVars, ytVars, podVars, histVars, otherVars, pagingVars, schedVars>>

\* Queue.advance(): the current item finished.
Advance ==
    /\ current > 0
    /\ current' = Advanced(queue, current)
    /\ segs' = IF Advanced(queue, current) = 0 THEN {}
               ELSE {s \in segs : queue[Advanced(queue, current)] # s.resume}
    /\ qlast' = [op |-> "advance", finished |-> queue[current], segs |-> segs]
    /\ UNCHANGED <<queue, envVars, spotifyVars, ytVars, podVars, histVars, otherVars, pagingVars, schedVars>>

InitQueue == Init /\ source = "podcast"

NextQueue ==
    \/ Enqueue
    \/ Play
    \/ Advance
    \/ \E newItems \in NewItemSeqs(queue) : Interrupt(newItems)

SpecQueue == InitQueue /\ [][NextQueue]_vars

(***************************************************************************)
(* Properties of the playback queue (SpecQueue).                           *)
(***************************************************************************)
Pos(q, item) == CHOOSE i \in 1..Len(q) : q[i] = item
Last(s) == s[Len(s)]

\* C8: interrupt(newItems) with a current item at index i puts newItems, in
\* their order, at positions i+1..i+|newItems|, leaves the current index and
\* item as they were, keeps every queued item and their relative order, and
\* changes nothing when newItems is empty: the items go neither before the
\* current index nor (unless the current item is last) to the tail.
C8_InterruptSplices ==
    (qlast.op = "interrupt" /\ qlast.current > 0) =>
        LET i == qlast.current
            n == Len(qlast.newItems)
            old == qlast.queue
        IN  /\ current = i
            /\ queue[current] = old[i]
            /\ Len(queue) = Len(old) + n
            /\ \A k \in 1..n : queue[i + k] = qlast.newItems[k]
            /\ \A k \in 1..i : queue[k] = old[k]
            /\ \A k \in (i + 1)..Len(old) : queue[k + n] = old[k]
            /\ n = 0 => queue = old

C8_Witness ==
    /\ qlast.op = "interrupt"
    /\ qlast.current > 1
    /\ qlast.current < Len(qlast.queue)
    /\ Len(qlast.newItems) = 2

\* C9 as stated: after interrupt([A,B]) with X current and Y behind it, the
\* advance after B makes Y current, also when a second interrupt arrived while
\* A or B was playing.
C9_AdvanceAfterLastResumes ==
    qlast.op = "advance" =>
        \A s \in qlast.segs :
            qlast.finished = Last(s.items) => (current > 0 /\ queue[current] = s.resume)

\* C9 amended: after interrupt([A,B]) with X current and Y behind it, every
\* item between X and Y is an inserted one (of this interrupt or of one that
\* arrived before Y was reached), the index moves through them one by one, and
\* Y is neither skipped nor preceded by another item of the original
\* continuation; with no further interrupt before Y is reached, the items
\* between X and Y are exactly A, B and the advance after B makes Y current.
C9_ResumesAfterInserted ==
    /\ \A s \in segs :
          LET px == Pos(queue, s.x)
              py == Pos(queue, s.resume)
          IN  /\ px <= current /\ current < py
              /\ \A k \in (px + 1)..(py - 1) : queue[k] \in s.ins
              /\ s.alone => SubSeq(queue, px + 1, py - 1) = s.items
    /\ qlast.op = "advance" =>
          \A s \in qlast.segs :
              /\ current > 0
              /\ queue[current] \in s.ins \/ queue[current] = s.resume
              /\ queue[current] \in s.ins => current = Pos(queue, qlast.finished) + 1
              /\ (s.alone /\ qlast.finished = Last(s.items)) => queue[current] = s.resume

C9_Witness ==
    /\ qlast.op = "advance"
    /\ \E s \in qlast.segs :
          /\ ~s.alone
          /\ Len(s.items) = 2
          /\ queue[current] = s.resume
          /\ qlast.finished \in s.ins
          /\ qlast.finished \notin ItemsOf(s.items)

(***************************************************************************)
(* The update-entry scheduler, for one entry on a podcast feed. The        *)
(* repository holds the UpdateEntry type and the documentation of the      *)
(* polling, but no scheduler code: its steps are modelled as the           *)
(* specification defines them (tick, check, persist the markers, then      *)
(* forward to Queue.interrupt; one check in flight at a time), around the  *)
(* repository's checkForUpdates.                                           *)
(***************************************************************************)
\* Timer periods a behaviour runs through.
MaxTicks == 3

\* The provider publishes a new item, one it never published before.
PublishNew ==
    /\ issued < MaxGuid
    /\ Len(server) < MaxLen
    /\ server' = <<Published(issued + 1)>> \o server
    /\ issued' = issued + 1
    /\ UNCHANGED <<source, spotifyVars, ytVars, podVars, histVars, otherVars, pagingVars, queueVars,
                   entry, sched, clock, inserted, stale>>

\* The provider drops an item from the feed.
WithdrawItem(i) ==
    /\ i \in 1..Len(server)
    /\ server' = SubSeq(server, 1, i - 1) \o SubSeq(server, i + 1, Len(server))
    /\ UNCHANGED <<source, spotifyVars, ytVars, podVars, histVars, otherVars, pagingVars, queueVars,
                   schedVars>>

\* The entry's timer fires. A tick during a check in flight is skipped; otherwise
\* the check starts: checkForUpdates(sourceId, lastSeenItemId) up to its fetch.
TimerFires ==
    /\ clock < MaxTicks
    /\ clock' = clock + 1
    /\ IF sched.pc # "idle" \/ podCall.pc # "idle"
       THEN UNCHANGED <<sched, podCall>>
       ELSE IF ~IsUpdateSource(source)
       THEN /\ sched' = [pc |-> "idle", outcome |-> "failed", before |-> entry, items |-> <<>>]
            /\ UNCHANGED podCall
       ELSE /\ sched' = [pc |-> "checking", outcome |-> "none", before |-> entry,
                         items |-> <<>>]
            /\ podCall' = [pc |-> "fetch", op |-> "checkForUpdates", url |-> FeedUrl,
                           marker |-> entry.lastSeenItemId, requests |-> 1]
    /\ UNCHANGED <<envVars, spotifyVars, ytVars, feeds, histVars, otherVars, pagingVars, queueVars,
                   entry, issued, inserted, stale>>

\* The check settles. A failure leaves the entry as it was. A check that found
\* nothing records the time of the check; one that found items goes on to
\* persist the markers.
CheckSettles(ok) ==
    /\ sched.pc = "checking"
    /\ podCall.pc = "fetch"
    /\ podCall' = NoCall
    /\ IF ~ok
       THEN /\ sched' = [sched EXCEPT !.pc = "idle", !.outcome = "failed"]
            /\ UNCHANGED <<feeds, entry, stale>>
       ELSE LET feed == ParsedFeed(podCall.url, server)
                items == PodcastUpdatesIn(feed, podCall.marker)
            IN  /\ feeds' = MapSet(feeds, podCall.url, feed)
                /\ stale' = (stale \/ (podCall.marker # NewEntry.lastSeenItemId
                                /\ \A i \in 1..Len(server) : server[i].guid # podCall.marker))
                /\ IF items = <<>>
                   THEN /\ sched' = [sched EXCEPT !.pc = "idle", !.outcome = "nochange"]
                        /\ entry' = [entry EXCEPT !.lastChecked = clock]
                   ELSE /\ sched' = [sched EXCEPT !.pc = "found", !.items = items]
                        /\ UNCHANGED entry
    /\ UNCHANGED <<envVars, spotifyVars, ytVars, histVars, otherVars, pagingVars, queueVars,
                   clock, issued, inserted>>

\* The markers are written: lastSeenItemId is the newest item found (the last of
\* the oldest-first result), lastChecked the time.
PersistMarkers ==
    /\ sched.pc = "found"
    /\ entry' = [lastSeenItemId |-> sched.items[Len(sched.items)].id, lastChecked |-> clock]
    /\ sched' = [sched EXCEPT !.pc = "persisted"]
    /\ UNCHANGED <<envVars, spotifyVars, ytVars, podVars, histVars, otherVars, pagingVars, queueVars,
                   clock, issued, inserted, stale>>

\* The items found are forwarded to Queue.interrupt.
Forward ==
    /\ sched.pc = "persisted"
    /\ InterruptTo(sched.items)
    /\ inserted' = [g \in Guids |->
                      inserted[g] + Cardinality({k \in 1..Len(sched.items) :
                                                    sched.items[k].id = g})]
    /\ sched' = [sched EXCEPT !.pc = "idle", !.outcome = "inserted", !.items = <<>>]
    /\ UNCHANGED <<envVars, spotifyVars, ytVars, podVars, histVars, otherVars, pagingVars,
                   entry, clock, issued, stale>>

\* The process dies and restarts: what was in memory is gone, the persisted
\* entry is read back.
Crash ==
    /\ sched' = NoCheck
    /\ podCall' = NoCall
    /\ feeds' = <<>>
    /\ queue' = <<>>
    /\ current' = 0
    /\ segs' = {}
    /\ qlast' = NoOp
    /\ UNCHANGED <<envVars, spotifyVars, ytVars, histVars, otherVars, pagingVars,
                   entry, clock, issued, inserted, stale>>

InitScheduler == Init /\ source = "podcast"

NextScheduler ==
    \/ PublishNew
    \/ \E i \in 1..MaxLen : WithdrawItem(i)
    \/ TimerFires
    \/ \E ok \in BOOLEAN : CheckSettles(ok)
    \/ PersistMarkers
    \/ Forward
    \/ Play
    \/ Advance
    \/ Crash

SpecScheduler == InitScheduler /\ [][NextScheduler]_vars

(***************************************************************************)
(* Properties of the scheduler (SpecScheduler).                            *)
(***************************************************************************)
\* C10: the scheduler puts any given new item into the queue at most once,
\* across ticks and across a crash and restart at any point.
C10_InsertedAtMostOnce == \A g \in Guids : inserted[g] <= 1

\* What the scheduler's own steps do guarantee: a failed check leaves both
\* markers as they were, every item is in the queue only after the markers that
\* cover it were written, and as long as no check ran with a lastSeenItemId the
\* feed had dropped, no item is inserted twice and lastSeenItemId never falls
\* behind an inserted item.
SchedulerKeepsMarkers ==
    /\ sched.outcome = "failed" => entry = sched.before
    /\ sched.pc \in {"checking", "found"} => entry = sched.before
    /\ ~stale => \A g \in Guids :
                    /\ inserted[g] <= 1
                    /\ inserted[g] > 0 => g <= entry.lastSeenItemId

(***************************************************************************)
(* The listing calls of SpotifySource and YouTubeSource: every one goes    *)
(* through fetchApi, and YouTube's getCollectionItems (also inside         *)
(* checkForUpdates) first resolves the channel to its uploads playlist.    *)
(* Several calls may be in flight on one source, one per caller. The       *)
(* responses are taken by their kind only: ok or not, with or without a    *)
(* further page.                                                           *)
(***************************************************************************)
ListingOps == {"getAvailableMedia", "getCollectionItems", "getRecentMedia", "search"}

\* A call as it starts. sawToken: fetchApi found a token at some point of the call.
NewCall(op) ==
    [pc |-> "start", op |-> op, coll |-> CollectionOf(source), requests |-> 0,
     pages |-> 0, sawToken |-> FALSE, outcome |-> "pending",
     cacheWas |-> "", cacheIs |-> ""]

\* The call at the moment fetchApi reads the token.
AtFetchApi(call, token) == [call EXCEPT !.sawToken = @ \/ token # "null"]

\* Mutant: fetchApi without the token check.
SpFetchApiUnchecked(call) ==
    [done |-> FALSE, outcome |-> "pending",
     call |-> [call EXCEPT !.pc = "fetch", !.requests = @ + 1]]

\* SpotifySource.fetchApi up to its fetch
SpFetchApi(call) ==
    IF spotifyToken \in {"null", ""}
    THEN [done |-> TRUE, outcome |-> "unauthenticated", call |-> call]
    ELSE [done |-> FALSE, outcome |-> "pending",
          call |-> [call EXCEPT !.pc = "fetch", !.requests = @ + 1]]

\* The caller's call after a step: settled, or awaiting its next response.
CallAfter(step) ==
    IF step.done
    THEN [step.call EXCEPT !.pc = "settled", !.outcome = step.outcome]
    ELSE step.call

\* getAvailableMedia, getCollectionItems, getRecentMedia and search of
\* SpotifySource: the path is built and fetchApi called.
SpotifyCall(c, op) ==
    /\ source = "spotify"
    /\ calls[c].pc \in {"idle", "settled"}
    /\ calls' = [calls EXCEPT
                    ![c] = CallAfter(SpFetchApi(AtFetchApi(NewCall(op), spotifyToken)))]
    /\ UNCHANGED <<envVars, spotifyVars, ytVars, podVars, histVars, clientVars, pagingVars, queueVars,
                   schedVars, feedVars, parseVars, resolved>>

\* fetchApi after its fetch: a response that is not ok rejects the call.
SpotifyResponse(c, ok) ==
    /\ source = "spotify"
    /\ calls[c].pc = "fetch"
    /\ calls' = [calls EXCEPT ![c] = [@ EXCEPT !.pc = "settled",
                                               !.outcome = IF ok THEN "ok" ELSE "error"]]
    /\ UNCHANGED <<envVars, spotifyVars, ytVars, podVars, histVars, clientVars, pagingVars, queueVars,
                   schedVars, feedVars, parseVars, resolved>>

\* A call on YouTubeSource up to its first request: getCollectionItems and
\* checkForUpdates (behind its gate) resolve the channel first, the others call
\* fetchApi at once.
YouTubeCall(c, op) ==
    /\ source = "youtube"
    /\ calls[c].pc \in {"idle", "settled"}
    /\ calls' = [calls EXCEPT ![c] =
          IF op = "checkForUpdates" /\ ~IsUpdateSource("youtube")
          THEN [NewCall(op) EXCEPT !.pc = "settled", !.outcome = "unsupported"]
          ELSE IF op \in {"getCollectionItems", "checkForUpdates"}
          THEN CallAfter(YtGetCollectionItems(AtFetchApi(NewCall(op), ytToken),
                                              uploadsPlaylistCache))
          ELSE CallAfter(YtFetchApi(AtFetchApi(NewCall(op), ytToken), "fetch"))]
    /\ UNCHANGED <<envVars, spotifyVars, ytVars, podVars, histVars, clientVars, pagingVars, queueVars,
                   schedVars, feedVars, parseVars, resolved>>

\* The response to the one request of getAvailableMedia, getRecentMedia or search.
YouTubeResponse(c, ok) ==
    /\ source = "youtube"
    /\ calls[c].pc = "fetch"
    /\ calls' = [calls EXCEPT ![c] = [@ EXCEPT !.pc = "settled",
                                               !.outcome = IF ok THEN "ok" ELSE "error"]]
    /\ UNCHANGED <<envVars, spotifyVars, ytVars, podVars, histVars, clientVars, pagingVars, queueVars,
                   schedVars, feedVars, parseVars, resolved>>

\* Mutant: the cache takes an entry whatever the response holds.
ResolvedAlways(cache, channelId, resp) == [cache EXCEPT ![channelId] = UploadsId]

\* getUploadsPlaylistId after the channels response: the cache gets the uploads
\* playlist of a response that is ok and has an item.
Resolved(cache, channelId, resp) ==
    IF resp = "ok" THEN [cache EXCEPT ![channelId] = UploadsId] ELSE cache

\* The channels response of a call in getUploadsPlaylistId.
YouTubeResolution(c, resp) ==
    /\ source = "youtube"
    /\ calls[c].pc = "channels"
    /\ uploadsPlaylistCache' = Resolved(uploadsPlaylistCache, calls[c].coll, resp)
    /\ resolved' = IF resp = "ok" THEN resolved + 1 ELSE resolved
    /\ LET call == [calls[c] EXCEPT
                       !.cacheWas = uploadsPlaylistCache[calls[c].coll],
                       !.cacheIs = Resolved(uploadsPlaylistCache, calls[c].coll, resp)[calls[c].coll]]
       IN  calls' = [calls EXCEPT ![c] =
              CASE resp = "error" -> [call EXCEPT !.pc = "settled", !.outcome = "error"]
                [] resp = "empty" -> [call EXCEPT !.pc = "settled", !.outcome = "notfound"]
                [] resp = "ok" -> CallAfter(YtFetchApi(AtFetchApi(call, ytToken), "page"))]
    /\ UNCHANGED <<envVars, spotifyVars, ytToken, ytCall, podVars, histVars, clientVars, pagingVars,
                   queueVars, schedVars, feedVars, parseVars>>

\* The playlistItems response: not ok, the page that ends the call, or (inside
\* checkForUpdates) a page without the marker and with a nextPageToken, after
\* which getCollectionItems is called again.
YouTubePlaylistItems(c, resp) ==
    /\ source = "youtube"
    /\ calls[c].pc = "page"
    /\ resp = "more" => (calls[c].op = "checkForUpdates" /\ calls[c].pages + 1 < MaxWalk)
    /\ LET call == [calls[c] EXCEPT !.pages = @ + 1]
       IN  calls' = [calls EXCEPT ![c] =
              CASE resp = "error" -> [call EXCEPT !.pc = "settled", !.outcome = "error"]
                [] resp = "last" -> [call EXCEPT !.pc = "settled", !.outcome = "ok"]
                [] resp = "more" ->
                      CallAfter(YtGetCollectionItems(AtFetchApi(call, ytToken),
                                                     uploadsPlaylistCache))]
    /\ UNCHANGED <<envVars, spotifyVars, ytVars, podVars, histVars, clientVars, pagingVars, queueVars,
                   schedVars, feedVars, parseVars, resolved>>

InitApi == Init /\ source \in {"spotify", "youtube"}

NextApi ==
    \/ \E t \in Tokens : SpotifySetAccessToken(t)
    \/ \E c \in Callers, op \in ListingOps : SpotifyCall(c, op)
    \/ \E c \in Callers, ok \in BOOLEAN : SpotifyResponse(c, ok)
    \/ \E t \in Tokens : YouTubeSetAccessToken(t)
    \/ \E c \in Callers, op \in ListingOps \cup {"checkForUpdates"} : YouTubeCall(c, op)
    \/ \E c \in Callers, ok \in BOOLEAN : YouTubeResponse(c, ok)
    \/ \E c \in Callers, resp \in {"ok", "error", "empty"} : YouTubeResolution(c, resp)
    \/ \E c \in Callers, resp \in {"error", "last", "more"} : YouTubePlaylistItems(c, resp)

SpecApi == InitApi /\ [][NextApi]_vars

(***************************************************************************)
(* Properties of the Spotify and YouTube listing calls (SpecApi).          *)
(***************************************************************************)
\* C11: a call on SpotifySource or YouTubeSource during which the access token
\* is null whenever fetchApi reads it (never set, or cleared again) rejects as
\* not authenticated and issues no request at all: not the channel
\* resolution, and none for a channel the cache already resolves.
C11_NoTokenNoRequest ==
    \A c \in Callers :
        (calls[c].pc # "idle" /\ calls[c].op \in ListingOps /\ ~calls[c].sawToken) =>
            /\ calls[c].pc = "settled"
            /\ calls[c].outcome = "unauthenticated"
            /\ calls[c].requests = 0

C11_Witness ==
    /\ source = "youtube"
    /\ ytToken = "null"
    /\ uploadsPlaylistCache[ChannelId] # ""
    /\ \E c \in Callers :
          /\ calls[c].pc = "settled"
          /\ calls[c].op = "getCollectionItems"
          /\ calls[c].outcome = "unauthenticated"
          /\ ~calls[c].sawToken

\* The calls awaiting the channels response.
Resolving == {c \in Callers : calls[c].pc = "channels"}

\* C12: over any interleaving of getCollectionItems and checkForUpdates calls for
\* one channel, the resolution request is issued once: the resolutions under
\* way and the ones that delivered an uploads playlist are never more than one.
C12_ResolutionIssuedOnce ==
    source = "youtube" => Cardinality(Resolving) + resolved <= 1

\* The calls that failed because the channels response held no item.
NotFound == {c \in Callers : calls[c].pc = "settled" /\ calls[c].outcome = "notfound"}

\* A call of c that resolves the channel starts in this step.
StartsResolving(c) ==
    /\ calls[c].pc = "settled"
    /\ calls'[c].pc \in {"channels", "page"}

\* C13: a channels response without items rejects getCollectionItems and
\* checkForUpdates as not found after that one request, with no playlistItems
\* request, and leaves the cache as it was; while the channel is not cached,
\* the next call that passes fetchApi issues the channels request again.
C13_NotFoundLeavesCache ==
    /\ [](\A c \in NotFound :
             /\ calls[c].op \in {"getCollectionItems", "checkForUpdates"}
             /\ calls[c].requests = 1
             /\ calls[c].pages = 0
             /\ calls[c].cacheIs = calls[c].cacheWas)
    /\ [][\A c \in NotFound :
             (StartsResolving(c) /\ uploadsPlaylistCache[calls'[c].coll] = "") =>
                 calls'[c].pc = "channels"]_vars

C13_Witness ==
    /\ uploadsPlaylistCache[ChannelId] = ""
    /\ \E c \in NotFound, d \in Callers :
          /\ calls[c].op = "checkForUpdates"
          /\ calls[d].pc = "channels"

(***************************************************************************)
(* The feed mapping of PodcastSource and its fetches: which operations     *)
(* issue a request, where the request goes when a CORS proxy is set, and   *)
(* what a failed fetch leaves behind. The source is constructed without a  *)
(* proxy; constructing it with one is setCorsProxyUrl before the first     *)
(* call. One fetching call is in flight at a time; the synchronous         *)
(* operations and a change of the proxy may fall between its start and its *)
(* response.                                                               *)
(***************************************************************************)
Proxies == {"null", "proxyA", "proxyB"}

FetchOps == {"addFeed", "refreshFeed", "getCollectionItems", "checkForUpdates"}

ReadOps == {"getAvailableMedia", "getRecentMedia", "getFeeds"}

\* The documents a feed URL serves.
FeedDocs == {<<>>, <<Episode(1)>>, <<Episode(2), Episode(1)>>}

\* The responses to a fetch: not ok, a document without a channel, a feed.
Responses ==
    {[ok |-> FALSE, channel |-> FALSE, items |-> <<>>],
     [ok |-> TRUE, channel |-> FALSE, items |-> <<>>]}
        \cup {[ok |-> TRUE, channel |-> TRUE, items |-> d] : d \in FeedDocs}

\* `${this.corsProxyUrl}${encodeURIComponent(feedUrl)}`
Proxied(proxy, feedUrl) ==
    CASE proxy = "proxyA" /\ feedUrl = "feed1" -> "proxyA?url=feed1"
      [] proxy = "proxyA" /\ feedUrl = "feed2" -> "proxyA?url=feed2"
      [] proxy = "proxyB" /\ feedUrl = "feed1" -> "proxyB?url=feed1"
      [] proxy = "proxyB" /\ feedUrl = "feed2" -> "proxyB?url=feed2"

\* fetchAndParseFeed: the URL the request goes to
FetchUrl(proxy, feedUrl) == IF proxy = "null" THEN feedUrl ELSE Proxied(proxy, feedUrl)

\* Mutant: the feed is parsed under the URL it was fetched from.
ParsedUrlOfFetch(call) == call.target

\* fetchAndParseFeed: the URL handed to parseRssFeed
ParsedUrl(call) == call.url

\* Mutant: a document without a channel parses to a feed without episodes.
FetchedLeniently(feedUrl, resp) ==
    [ok |-> resp.ok, feed |-> ParsedFeed(feedUrl, resp.items)]

\* fetchAndParseFeed after its fetch: the parsed feed, or the failure of a
\* response that is not ok or of a document without a channel.
Fetched(feedUrl, resp) ==
    [ok |-> resp.ok /\ resp.channel, feed |-> ParsedFeed(feedUrl, resp.items)]

\* Mutant: getCollectionItems fetches whether or not the feed is stored.
MustFetchAlways(fs, collectionId) == TRUE

\* getCollectionItems: this.feeds.get(collectionId) found nothing
MustFetch(fs, collectionId) == FeedIndex(fs, collectionId) = 0

\* A call as fetchAndParseFeed issues its request.
Fetching(op, url) ==
    [pc |-> "fetch", op |-> op, url |-> url, target |-> FetchUrl(corsProxyUrl, url),
     requests |-> 1, known |-> FeedIndex(feeds, url) # 0, removed |-> FALSE]

\* An operation that returned without a fetch.
Returned(op, url, fs) ==
    [op |-> op, url |-> url, target |-> "", requests |-> 0, outcome |-> "ok",
     known |-> FeedIndex(feeds, url) # 0, bad |-> FALSE, kept |-> fs = feeds,
     removed |-> FALSE]

PodcastSetCorsProxyUrl(proxy) ==
    /\ source = "podcast"
    /\ corsProxyUrl' = proxy
    /\ UNCHANGED <<envVars, spotifyVars, ytVars, podVars, histVars, clientVars, pagingVars, queueVars,
                   schedVars, apiVars, parseVars, feedOp>>

\* addFeed and refreshFeed up to the fetch of fetchAndParseFeed
PodcastAddFeed(op, feedUrl) ==
    /\ source = "podcast"
    /\ podCall.pc = "idle"
    /\ podCall' = Fetching(op, feedUrl)
    /\ UNCHANGED <<envVars, spotifyVars, ytVars, feeds, histVars, clientVars, pagingVars, queueVars,
                   schedVars, apiVars, parseVars, feedVars>>

\* checkForUpdates: the gate, then fetchUpdatesSince calls refreshFeed.
PodcastPollFeed(feedUrl) ==
    /\ source = "podcast"
    /\ podCall.pc = "idle"
    /\ IF IsUpdateSource("podcast")
       THEN /\ podCall' = Fetching("checkForUpdates", feedUrl)
            /\ UNCHANGED feedOp
       ELSE /\ feedOp' = [Returned("checkForUpdates", feedUrl, feeds)
                             EXCEPT !.outcome = "unsupported"]
            /\ UNCHANGED podCall
    /\ UNCHANGED <<envVars, spotifyVars, ytVars, feeds, histVars, clientVars, pagingVars, queueVars,
                   schedVars, apiVars, parseVars, corsProxyUrl>>

\* getCollectionItems: a stored feed is paged at once, another is fetched first.
PodcastItemsOf(collectionId) ==
    /\ source = "podcast"
    /\ podCall.pc = "idle"
    /\ IF MustFetch(feeds, collectionId)
       THEN /\ podCall' = Fetching("getCollectionItems", collectionId)
            /\ UNCHANGED feedOp
       ELSE /\ feedOp' = Returned("getCollectionItems", collectionId, feeds)
            /\ UNCHANGED podCall
    /\ UNCHANGED <<envVars, spotifyVars, ytVars, feeds, histVars, clientVars, pagingVars, queueVars,
                   schedVars, apiVars, parseVars, corsProxyUrl>>

\* The fetch of fetchAndParseFeed settles and the caller stores the feed, or
\* the failure rejects the call.
PodcastFeedFetched(resp) ==
    /\ source = "podcast"
    /\ podCall.pc = "fetch"
    /\ podCall.op \in FetchOps
    /\ LET got == Fetched(ParsedUrl(podCall), resp)
           fs == IF got.ok THEN MapSet(feeds, podCall.url, got.feed) ELSE feeds
       IN  /\ feeds' = fs
           /\ feedOp' = [op |-> podCall.op, url |-> podCall.url, target |-> podCall.target,
                         requests |-> podCall.requests,
                         outcome |-> IF got.ok THEN "ok" ELSE "error",
                         known |-> podCall.known,
                         bad |-> ~(resp.ok /\ resp.channel),
                         kept |-> fs = feeds,
                         removed |-> podCall.removed]
    /\ podCall' = NoCall
    /\ UNCHANGED <<envVars, spotifyVars, ytVars, histVars, clientVars, pagingVars, queueVars,
                   schedVars, apiVars, parseVars, corsProxyUrl>>

\* The call in flight, marked when removeFeed(feedUrl) returned true meanwhile.
Overtaken(call, feedUrl, fs) ==
    IF call.pc = "fetch" /\ call.url = feedUrl /\ FeedIndex(fs, feedUrl) # 0
    THEN [call EXCEPT !.removed = TRUE]
    ELSE call

\* removeFeed
PodcastForgetFeed(feedUrl) ==
    /\ source = "podcast"
    /\ feeds' = MapDelete(feeds, feedUrl)
    /\ feedOp' = Returned("removeFeed", feedUrl, MapDelete(feeds, feedUrl))
    /\ podCall' = Overtaken(podCall, feedUrl, feeds)
    /\ UNCHANGED <<envVars, spotifyVars, ytVars, histVars, clientVars, pagingVars, queueVars,
                   schedVars, apiVars, parseVars, corsProxyUrl>>

\* restoreFeeds, of feeds as getFeeds handed them out for persistence
PodcastReloadFeeds(list) ==
    /\ source = "podcast"
    /\ feeds' = SetAll(feeds, list, 1)
    /\ feedOp' = Returned("restoreFeeds", list[1].url, SetAll(feeds, list, 1))
    /\ podCall' = IF podCall.pc = "fetch" /\ podCall.url = list[1].url
                  THEN [podCall EXCEPT !.removed = FALSE] ELSE podCall
    /\ UNCHANGED <<envVars, spotifyVars, ytVars, histVars, clientVars, pagingVars, queueVars,
                   schedVars, apiVars, parseVars, corsProxyUrl>>

\* getAvailableMedia, getRecentMedia and getFeeds read the mapping.
PodcastReads(op) ==
    /\ source = "podcast"
    /\ feedOp' = Returned(op, "", feeds)
    /\ UNCHANGED <<envVars, spotifyVars, ytVars, podVars, histVars, clientVars, pagingVars, queueVars,
                   schedVars, apiVars, parseVars, corsProxyUrl>>

InitFeeds == Init /\ source = "podcast"

NextFeeds ==
    \/ \E proxy \in Proxies : PodcastSetCorsProxyUrl(proxy)
    \/ \E op \in {"addFeed", "refreshFeed"}, url \in FeedUrls : PodcastAddFeed(op, url)
    \/ \E url \in FeedUrls : PodcastPollFeed(url)
    \/ \E url \in FeedUrls : PodcastItemsOf(url)
    \/ \E resp \in Responses : PodcastFeedFetched(resp)
    \/ \E url \in FeedUrls : PodcastForgetFeed(url)
    \/ \E url \in FeedUrls, doc \in FeedDocs : PodcastReloadFeeds(<<ParsedFeed(url, doc)>>)
    \/ \E op \in ReadOps : PodcastReads(op)

SpecFeeds == InitFeeds /\ [][NextFeeds]_vars

(***************************************************************************)
(* Properties of the feed mapping (SpecFeeds).                             *)
(***************************************************************************)
\* C14: getAvailableMedia, getRecentMedia, removeFeed, restoreFeeds and getFeeds
\* issue no request; getCollectionItems issues one exactly when the
\* collection id is not a key of the mapping, and then the feed is stored
\* under that key; addFeed, refreshFeed and checkForUpdates issue exactly one
\* request per call.
C14_WhoFetches ==
    /\ podCall.pc = "fetch" =>
          /\ podCall.requests = 1
          /\ podCall.op = "getCollectionItems" => ~podCall.known
    /\ feedOp.op \in ReadOps \cup {"removeFeed", "restoreFeeds"} => feedOp.requests = 0
    /\ feedOp.op \in {"addFeed", "refreshFeed", "checkForUpdates"} => feedOp.requests = 1
    /\ feedOp.op = "getCollectionItems" =>
          /\ feedOp.requests = IF feedOp.known THEN 0 ELSE 1
          /\ feedOp.known => feedOp.kept
          /\ (~feedOp.known /\ feedOp.outcome = "ok" /\ podCall.pc = "idle") =>
                 FeedIndex(feeds, feedOp.url) # 0

C14_Witness ==
    /\ feedOp.op = "getCollectionItems"
    /\ ~feedOp.known
    /\ feedOp.outcome = "ok"
    /\ FeedIndex(feeds, feedOp.url) # 0
    /\ Len(feeds) = 2

\* C15: with or without a proxy, and whatever the proxy was when a feed was
\* fetched, every entry of the mapping is keyed by a feed URL as the caller
\* gave it, the feed under the key carries that URL, and so does the
\* collection listed for it; the proxied URL is the fetch target only.
C15_KeyedByFeedUrl ==
    \A i \in 1..Len(feeds) :
        /\ feeds[i].key \in FeedUrls
        /\ feeds[i].url = feeds[i].key
        /\ MapFeedToCollection(feeds[i]).id = feeds[i].key

C15_Witness ==
    /\ feedOp.op = "addFeed"
    /\ feedOp.outcome = "ok"
    /\ feedOp.target = Proxied("proxyA", feedOp.url)
    /\ corsProxyUrl = "proxyB"
    /\ FeedIndex(feeds, feedOp.url) # 0
    /\ Len(feeds) = 2

\* C16: a response that is not ok, or a document without a channel, rejects
\* addFeed, refreshFeed, getCollectionItems of an unknown feed and
\* checkForUpdates, and the mapping is after the failure what it was before:
\* no entry is added and a stored feed keeps its episodes.
C16_FailedFetchKeepsFeeds ==
    (feedOp.op \in FetchOps /\ feedOp.bad) =>
        /\ feedOp.outcome = "error"
        /\ feedOp.kept

C16_Witness ==
    /\ feedOp.op = "refreshFeed"
    /\ feedOp.bad
    /\ feedOp.outcome = "error"
    /\ FeedIndex(feeds, feedOp.url) # 0
    /\ feeds[FeedIndex(feeds, feedOp.url)].episodes # <<>>

(***************************************************************************)
(* parseRssFeed and parseDuration, applied to the texts a feed document    *)
(* can hold. A text is a sequence of characters. A JavaScript value is     *)
(* kept with its kind: a number, NaN or undefined.                         *)
(***************************************************************************)
MaxRaw == 4

DigitChars == {"0", "1", "2", "3", "4", "5", "6", "7", "8", "9"}

\* The characters of the enumerated duration texts.
DurationChars == {"0", "1", "3", ":", " ", "-", "x"}

Texts == UNION {[1..n -> DurationChars] : n \in 0..MaxRaw}

\* The durations of the sample feed, also with whitespace around them.
SampleDurations ==
    {<<"3", "6", "0", "0">>, <<"4", "5", ":", "3", "0">>,
     <<"1", ":", "3", "0", ":", "0", "0">>}

Paddings == {<<>>, <<" ">>}

RawDurations ==
    Texts \cup {l \o d \o r : l \in Paddings, d \in SampleDurations, r \in Paddings}

Num(n) == [kind |-> "number", val |-> n]

NaN == [kind |-> "NaN", val |-> 0]

Undefined == [kind |-> "undefined", val |-> 0]

\* a + b and a * k of JavaScript numbers
Plus(a, b) == IF a.kind = "NaN" \/ b.kind = "NaN" THEN NaN ELSE Num(a.val + b.val)

Times(a, k) == IF a.kind = "NaN" THEN NaN ELSE Num(a.val * k)

DigitValue(ch) ==
    CASE ch = "0" -> 0 [] ch = "1" -> 1 [] ch = "2" -> 2 [] ch = "3" -> 3 [] ch = "4" -> 4
      [] ch = "5" -> 5 [] ch = "6" -> 6 [] ch = "7" -> 7 [] ch = "8" -> 8 [] ch = "9" -> 9

\* /^\d+$/.test(s)
IsDigits(s) == s # <<>> /\ \A i \in 1..Len(s) : s[i] \in DigitChars

\* parseInt(s, 10) of a string of digits
RECURSIVE Decimal(_, _, _)
Decimal(s, i, acc) ==
    IF i > Len(s) THEN acc ELSE Decimal(s, i + 1, acc * 10 + DigitValue(s[i]))

\* Mutant: the text is taken as it stands.
Untrimmed(s) == s

\* String.prototype.trim
Trim(s) ==
    LET inked == {i \in 1..Len(s) : s[i] # " "}
    IN  IF inked = {} THEN <<>>
        ELSE LET lo == CHOOSE i \in inked : \A j \in inked : i <= j
                 hi == CHOOSE i \in inked : \A j \in inked : j <= i
             IN  SubSeq(s, lo, hi)

\* s.split(':'): the parts between the colons, from the i-th character on,
\* part being the one under way
RECURSIVE Split(_, _, _)
Split(s, i, part) ==
    IF i > Len(s) THEN <<part>>
    ELSE IF s[i] = ":" THEN <<part>> \o Split(s, i + 1, <<>>)
    ELSE Split(s, i + 1, Append(part, s[i]))

\* Number(s): whitespace around the numeral is dropped, the empty string is
\* 0, a sign is read, anything else is NaN.
JsNumber(s) ==
    LET t == Trim(s)
    IN  IF t = <<>> THEN Num(0)
        ELSE IF IsDigits(t) THEN Num(Decimal(t, 1, 0))
        ELSE IF t[1] = "-" /\ IsDigits(Tail(t)) THEN Num(0 - Decimal(Tail(t), 1, 0))
        ELSE NaN

\* parseDuration
ParseDuration(raw) ==
    LET trimmed == Trim(raw)
        texts == Split(trimmed, 1, <<>>)
        parts == [i \in 1..Len(texts) |-> JsNumber(texts[i])]
    IN  IF IsDigits(trimmed) THEN Num(Decimal(trimmed, 1, 0))
        ELSE IF Len(parts) = 3
        THEN Plus(Plus(Times(parts[1], 3600), Times(parts[2], 60)), parts[3])
        ELSE IF Len(parts) = 2 THEN Plus(Times(parts[1], 60), parts[2])
        ELSE Num(0)

\* parseRssFeed: the duration of an item, whose duration element may be missing
Duration(present, raw) ==
    IF present /\ raw # <<>> THEN ParseDuration(raw) ELSE Undefined

\* An item's duration is parsed.
ParsesDuration(present, raw) ==
    /\ parsed = NoOp
    /\ parsed' = [op |-> "duration", present |-> present, raw |-> raw,
                  result |-> Duration(present, raw)]
    /\ UNCHANGED <<envVars, spotifyVars, ytVars, podVars, histVars, clientVars, pagingVars, queueVars,
                   schedVars, apiVars, feedVars, recent>>

InitDuration == Init /\ source = "podcast"

NextDuration ==
    \/ \E raw \in RawDurations : ParsesDuration(TRUE, raw)
    \/ ParsesDuration(FALSE, <<>>)

SpecDuration == InitDuration /\ [][NextDuration]_vars

(***************************************************************************)
(* Properties of the duration of an item (SpecDuration).                    *)
(***************************************************************************)
\* The texts that differ from raw by surrounding whitespace only and are in
\* one of the three encodings: digits, digits:digits, digits:digits:digits.
Readings(raw) ==
    {t \in {SubSeq(raw, lo, hi) : lo \in 1..Len(raw), hi \in 1..Len(raw)} :
        /\ \E l \in 0..Len(raw), r \in 0..Len(raw) :
              raw = [i \in 1..l |-> " "] \o t \o [i \in 1..r |-> " "]
        /\ Len(Split(t, 1, <<>>)) <= 3
        /\ \A i \in 1..Len(Split(t, 1, <<>>)) : IsDigits(Split(t, 1, <<>>)[i])}

Encoded(raw) == Readings(raw) # {}

\* C17: an item without a duration, or with one in none of the three
\* encodings, gets no duration: not 0 and not NaN.
C17_UnparseableIsAbsent ==
    (parsed.op = "duration" /\ (~parsed.present \/ ~Encoded(parsed.raw))) =>
        parsed.result = Undefined

\* The seconds of hours, minutes and seconds.
Seconds(h, m, sec) == h * 3600 + m * 60 + sec

\* C18: a duration in one of the three encodings, whatever whitespace is
\* around it, is the number of seconds it denotes: d for digits d, MM*60+SS
\* for MM:SS, HH*3600+MM*60+SS for HH:MM:SS; it is an integer and not negative.
C18_DurationInSeconds ==
    (parsed.op = "duration" /\ parsed.present /\ Encoded(parsed.raw)) =>
        LET texts == Split(CHOOSE t \in Readings(parsed.raw) : TRUE, 1, <<>>)
            n == [i \in 1..Len(texts) |-> Decimal(texts[i], 1, 0)]
        IN  /\ parsed.result.kind = "number"
            /\ parsed.result.val \in Nat
            /\ parsed.result.val =
                  CASE Len(n) = 1 -> n[1]
                    [] Len(n) = 2 -> Seconds(0, n[1], n[2])
                    [] Len(n) = 3 -> Seconds(n[1], n[2], n[3])
            /\ parsed.raw = <<" ", "3", "6", "0", "0">> => parsed.result.val = 3600
            /\ parsed.raw = <<"4", "5", ":", "3", "0", " ">> => parsed.result.val = 2730
            /\ parsed.raw = <<"1", ":", "3", "0", ":", "0", "0">> => parsed.result.val = 5400

C18_Witness ==
    /\ parsed.op = "duration"
    /\ parsed.raw = <<" ", "1", ":", "3", "0", ":", "0", "0", " ">>
    /\ parsed.result = Num(5400)

(***************************************************************************)
(* parseRssFeed over the items of a document. Of an item, what the parse   *)
(* reads: the url attribute of its first enclosure, the text of its guid,  *)
(* pubDate and duration elements; "null" stands for an element or          *)
(* attribute that is not there.                                            *)
(***************************************************************************)
MaxItems == 2

EnclosureUrls == {"null", "", "a1", "a2"}

GuidTexts == {"null", "", "g1"}

\* No pubDate, one that Date parses, one that it does not.
PubDates == {"null", "Mon, 01 Jan 2024", "soon"}

ItemDurations == {[present |-> FALSE, raw |-> <<>>], [present |-> TRUE, raw |-> <<"4", "5", ":", "3", "0">>]}

Items == [enclosure : EnclosureUrls, guid : GuidTexts, pubDate : PubDates, duration : ItemDurations]

Documents ==
    {[channel |-> FALSE, items |-> <<>>]}
        \cup {[channel |-> TRUE, items |-> items] :
                 items \in UNION {[1..n -> Items] : n \in 0..MaxItems}}

\* new Date(pubDate).toISOString(): throws a RangeError for an invalid date
ToISOString(pubDate) ==
    IF pubDate = "Mon, 01 Jan 2024"
    THEN [ok |-> TRUE, text |-> "2024-01-01T00:00:00.000Z"]
    ELSE [ok |-> FALSE, text |-> ""]

\* item.querySelector('guid')?.textContent ?? audioUrl
GuidOf(guidText, audioUrl) == IF guidText = "null" THEN audioUrl ELSE guidText

\* The callback of itemElements.forEach for one item: it returns without an
\* episode, pushes one, or throws.
ParsedItem(item) ==
    IF item.enclosure \in {"null", ""}
    THEN [kind |-> "skipped", episode |-> <<>>]
    ELSE IF item.pubDate # "null" /\ ~ToISOString(item.pubDate).ok
    THEN [kind |-> "thrown", episode |-> <<>>]
    ELSE [kind |-> "pushed",
          episode |-> <<[guid |-> GuidOf(item.guid, item.enclosure),
                         audioUrl |-> item.enclosure,
                         publishedAt |-> IF item.pubDate = "null" THEN ""
                                         ELSE ToISOString(item.pubDate).text,
                         duration |-> Duration(item.duration.present, item.duration.raw)]>>]

\* The episodes pushed for the items from the i-th on.
RECURSIVE EpisodesOf(_, _)
EpisodesOf(items, i) ==
    IF i > Len(items) THEN <<>>
    ELSE ParsedItem(items[i]).episode \o EpisodesOf(items, i + 1)

\* parseRssFeed: a document without a channel and an item that throws fail the
\* parse as a whole.
ParseRssFeed(xml, feedUrl) ==
    IF ~xml.channel THEN [ok |-> FALSE, feed |-> ParsedFeed(feedUrl, <<>>)]
    ELSE IF \E i \in 1..Len(xml.items) : ParsedItem(xml.items[i]).kind = "thrown"
    THEN [ok |-> FALSE, feed |-> ParsedFeed(feedUrl, <<>>)]
    ELSE [ok |-> TRUE, feed |-> ParsedFeed(feedUrl, EpisodesOf(xml.items, 1))]

\* A document is parsed.
ParsesFeed(xml) ==
    /\ parsed = NoOp
    /\ parsed' = [op |-> "parseRssFeed", xml |-> xml, result |-> ParseRssFeed(xml, FeedUrl)]
    /\ UNCHANGED <<envVars, spotifyVars, ytVars, podVars, histVars, clientVars, pagingVars, queueVars,
                   schedVars, apiVars, feedVars, recent>>

InitRss == Init /\ source = "podcast"

NextRss == \E xml \in Documents : ParsesFeed(xml)

SpecRss == InitRss /\ [][NextRss]_vars

(***************************************************************************)
(* Properties of the parsed episodes (SpecRss).                            *)
(***************************************************************************)
\* The items of the document that have an enclosure url, in document order.
WithAudio(items) == SelectSeq(items, LAMBDA item : item.enclosure \notin {"null", ""})

\* C19: the parse of a document with a channel yields one episode for each
\* item with an enclosure url, in document order, and none for the others;
\* the guid of an episode is the item's guid where it has one and the
\* enclosure url otherwise; audioUrl and guid of an episode are not empty.
C19_EpisodePerAudioItem ==
    (parsed.op = "parseRssFeed" /\ parsed.xml.channel) =>
        LET episodes == parsed.result.feed.episodes
            audio == WithAudio(parsed.xml.items)
        IN  /\ parsed.result.ok
            /\ Len(episodes) = Len(audio)
            /\ \A i \in 1..Len(episodes) :
                  /\ episodes[i].audioUrl = audio[i].enclosure
                  /\ episodes[i].guid = IF audio[i].guid = "null"
                                        THEN audio[i].enclosure ELSE audio[i].guid
                  /\ episodes[i].audioUrl # ""
                  /\ episodes[i].guid # ""

(***************************************************************************)
(* getRecentMedia of the three adapters, called with the default options.  *)
(* PodcastSource answers from its feeds; SpotifySource and YouTubeSource   *)
(* ask the provider, which answers from its listing as the time parameter  *)
(* of the request tells it to.                                             *)
(***************************************************************************)
\* mapRecentTrack: the media item of a played track (it carries no time)
MapRecentTrack(item) == [id |-> item.guid, source |-> "spotify", publishedAt |-> 0]

\* mapSearchResult
MapSearchResult(item) == [id |-> item.guid, source |-> "youtube", publishedAt |-> item.publishedAt]

\* The provider's answer. Spotify's recently-played lists what was played
\* after `after`; YouTube's search lists what was published at publishedAfter
\* or later, and everything when the parameter is not sent (0).
RecentlyPlayed(listing, after) == SelectSeq(listing, LAMBDA item : item.publishedAt > after)

SearchResults(listing, publishedAfter) ==
    SelectSeq(listing, LAMBDA item : publishedAfter = 0 \/ item.publishedAt >= publishedAfter)

\* The time parameter of the request: SpotifySource sends the offset of the
\* cursor as `after`, YouTubeSource sends `since` as publishedAfter.
TimeParameter(a, since, options) == IF a = "spotify" THEN OffsetOf(options) ELSE since

\* getRecentMedia up to its request; PodcastSource returns at once.
GetRecentMedia(since) ==
    /\ recent.pc \in {"idle", "settled"}
    /\ LET options == Options(<<>>, <<>>)
           call == [pc |-> "start", adapter |-> source, since |-> since, requests |-> 0,
                    outcome |-> "pending", items |-> <<>>,
                    after |-> TimeParameter(source, since, options)]
       IN  recent' =
              CASE source = "podcast" ->
                      [call EXCEPT !.pc = "settled", !.outcome = "ok",
                                   !.items = RecentMedia(feeds, since, options).items]
                [] source = "spotify" -> CallAfter(SpFetchApi(call))
                [] source = "youtube" -> CallAfter(YtFetchApi(call, "fetch"))
    /\ UNCHANGED <<envVars, spotifyVars, ytVars, podVars, histVars, clientVars, pagingVars, queueVars,
                   schedVars, apiVars, feedVars, parsed>>

\* fetchApi after its fetch, and the mapping of the items of the response
RecentResponse(ok) ==
    /\ recent.pc = "fetch"
    /\ recent' =
          IF ~ok THEN [recent EXCEPT !.pc = "settled", !.outcome = "error"]
          ELSE [recent EXCEPT
                   !.pc = "settled", !.outcome = "ok",
                   !.items =
                       IF recent.adapter = "spotify"
                       THEN LET played == RecentlyPlayed(server, recent.after)
                            IN  [i \in 1..Len(played) |-> MapRecentTrack(played[i])]
                       ELSE LET found == SearchResults(server, recent.after)
                            IN  [i \in 1..Len(found) |-> MapSearchResult(found[i])]]
    /\ UNCHANGED <<envVars, spotifyVars, ytVars, podVars, histVars, clientVars, pagingVars, queueVars,
                   schedVars, apiVars, feedVars, parsed>>

InitRecent == Init

NextRecent ==
    \/ \E g \in Guids : Publish(g)
    \/ \E t \in Tokens : SpotifySetAccessToken(t)
    \/ \E t \in Tokens : YouTubeSetAccessToken(t)
    \/ \E url \in FeedUrls, doc \in FeedDocs : PodcastReloadFeeds(<<ParsedFeed(url, doc)>>)
    \/ \E since \in Sinces : GetRecentMedia(since)
    \/ \E ok \in BOOLEAN : RecentResponse(ok)

SpecRecent == InitRecent /\ [][NextRecent]_vars

(***************************************************************************)
(* Properties of getRecentMedia (SpecRecent).                              *)
(***************************************************************************)
\* When the provider published or played the returned item; 0 for an episode
\* without a date.
TimeOf(a, item) == IF a = "podcast" THEN item.publishedAt ELSE Published(item.id).publishedAt

\* C20: on every adapter, a getRecentMedia call with `since` given returns no
\* item published or played at or before `since`.
C20_NothingNotNewer ==
    (recent.pc = "settled" /\ recent.outcome = "ok" /\ recent.since # 0) =>
        \A i \in 1..Len(recent.items) :
            \/ TimeOf(recent.adapter, recent.items[i]) = 0
            \/ TimeOf(recent.adapter, recent.items[i]) > recent.since

(***************************************************************************)
(* The listings of SpotifySource, paged by offset: a client asks for the   *)
(* first page and hands every nextCursor back with the same limit. The     *)
(* provider's answer is taken by its `next` field alone.                   *)
(***************************************************************************)
SpotifyDefaultLimit == 20

SpotifyListings == {"getAvailableMedia", "getCollectionItems", "search"}

\* The `next` field of a response: null, an empty string or a URL.
NextFields == {"null", "", "https://api.spotify.com/v1/next"}

\* The limits a client passes: none, or one of these.
SpotifyLimits == {<<>>, <<1>>, <<2>>}

\* Mutant: a cursor whenever `next` is not null.
SpotifyNextCursorUnlessNull(next, offset, limit) ==
    IF next # "null" THEN StringOf(offset + limit) ELSE <<>>

\* nextCursor: data.next ? String(offset + limit) : undefined
SpotifyNextCursor(next, offset, limit) ==
    IF next \notin {"null", ""} THEN StringOf(offset + limit) ELSE <<>>

\* The client asks for the first page of a listing.
SpotifyBrowse(op, limit) ==
    /\ source = "spotify"
    /\ walk.pc \in {"idle", "done"}
    /\ walk' = [pc |-> "next", op |-> op, limit |-> limit, cursor |-> <<>>, pages |-> 0,
                requests |-> 0, outcome |-> "pending",
                request |-> [limit |-> 0, offset |-> 0],
                page |-> [next |-> "null", nextCursor |-> <<>>, limit |-> 0, offset |-> 0]]
    /\ UNCHANGED <<envVars, spotifyVars, ytVars, podVars, histVars, otherVars, queueVars,
                   schedVars>>

\* A listing method up to its fetch: limit and offset are read from the options
\* and put into the path.
SpotifyList ==
    /\ source = "spotify"
    /\ walk.pc = "next"
    /\ LET options == Options(walk.limit, walk.cursor)
           call == [walk EXCEPT !.request = [limit |-> LimitOf(options, SpotifyDefaultLimit),
                                             offset |-> OffsetOf(options)]]
           step == SpFetchApi(call)
       IN  walk' = IF step.done
                   THEN [step.call EXCEPT !.pc = "done", !.outcome = step.outcome]
                   ELSE step.call
    /\ UNCHANGED <<envVars, spotifyVars, ytVars, podVars, histVars, otherVars, queueVars,
                   schedVars>>

\* The response arrives and the method returns its page; the client goes on
\* with the nextCursor it got, if any.
SpotifyListed(ok, next) ==
    /\ source = "spotify"
    /\ walk.pc = "fetch"
    /\ walk.pages < MaxWalk
    /\ LET nextCursor == SpotifyNextCursor(next, walk.request.offset, walk.request.limit)
       IN  walk' =
              IF ~ok THEN [walk EXCEPT !.pc = "done", !.outcome = "error"]
              ELSE [walk EXCEPT
                       !.pc = IF nextCursor = <<>> \/ walk.pages + 1 = MaxWalk
                              THEN "done" ELSE "next",
                       !.outcome = "ok",
                       !.pages = @ + 1,
                       !.cursor = nextCursor,
                       !.page = [next |-> next, nextCursor |-> nextCursor,
                                 limit |-> walk.request.limit,
                                 offset |-> walk.request.offset]]
    /\ UNCHANGED <<envVars, spotifyVars, ytVars, podVars, histVars, otherVars, queueVars,
                   schedVars>>

InitCursor == Init /\ source = "spotify"

NextCursor ==
    \/ \E t \in Tokens : SpotifySetAccessToken(t)
    \/ \E op \in SpotifyListings, limit \in SpotifyLimits : SpotifyBrowse(op, limit)
    \/ SpotifyList
    \/ \E ok \in BOOLEAN, next \in NextFields : SpotifyListed(ok, next)

SpecCursor == InitCursor /\ [][NextCursor]_vars

(***************************************************************************)
(* Properties of the Spotify cursors (SpecCursor).                         *)
(***************************************************************************)
\* The number a string of decimal digits denotes, most significant first.
RECURSIVE Denoted(_)
Denoted(digits) ==
    IF digits = <<>> THEN 0
    ELSE 10 * Denoted(SubSeq(digits, 1, Len(digits) - 1)) + digits[Len(digits)]

\* C21: a page of a Spotify listing has a nextCursor exactly when the
\* response's `next` is truthy; the cursor is offset + limit of the request in
\* decimal digits, the offset of a first request being 0; the request made
\* with that cursor asks for exactly that offset and the same limit.
C21_CursorIsNextOffset ==
    (source = "spotify" /\ walk.pc # "idle" /\ walk.pages > 0) =>
        /\ walk.page.nextCursor # <<>> <=> walk.page.next \notin {"null", ""}
        /\ walk.page.nextCursor # <<>> =>
              /\ Denoted(walk.page.nextCursor) = walk.page.offset + walk.page.limit
              /\ Len(walk.page.nextCursor) = 1 \/ walk.page.nextCursor[1] # 0
        /\ walk.pages = 1 => walk.page.offset = 0
        /\ walk.pc = "fetch" =>
              /\ walk.request.offset = walk.page.offset + walk.page.limit
              /\ walk.request.limit = walk.page.limit

C21_Witness ==
    /\ source = "spotify"
    /\ walk.pc = "fetch"
    /\ walk.pages = 2
    /\ walk.limit = <<>>
    /\ walk.request.offset = 40

(***************************************************************************)
(* isAuthenticated of the three sources, over the operations of            *)
(* SpotifySource, YouTubeSource and PodcastSource. A token is null, an     *)
(* empty string or a token string.                                         *)
(***************************************************************************)
AuthTokens == {"null", "", "tok"}

\* Mutant: authenticated when the token is truthy.
IsAuthenticatedIfTruthy(a) ==
    CASE a = "podcast" -> TRUE
      [] a = "spotify" -> spotifyToken \notin {"null", ""}
      [] a = "youtube" -> ytToken \notin {"null", ""}

\* isAuthenticated(): true on PodcastSource, accessToken !== null on the others
IsAuthenticated(a) ==
    CASE a = "podcast" -> TRUE
      [] a = "spotify" -> spotifyToken # "null"
      [] a = "youtube" -> ytToken # "null"

NextAuth ==
    \/ \E t \in AuthTokens : SpotifySetAccessToken(t)
    \/ \E t \in AuthTokens : YouTubeSetAccessToken(t)
    \/ NextApi
    \/ NextFeeds

SpecAuth == Init /\ [][NextAuth]_vars

(***************************************************************************)
(* Properties of isAuthenticated (SpecAuth).                               *)
(***************************************************************************)
\* C22: isAuthenticated() of PodcastSource is always true; that of
\* SpotifySource and YouTubeSource is false at first, after setAccessToken(t)
\* it is true exactly when t is not null, and no step other than
\* setAccessToken changes it.
C22_AuthenticatedIffTokenSet ==
    /\ (source # "podcast" => ~IsAuthenticated(source))
    /\ [](source = "podcast" => IsAuthenticated(source))
    /\ [][/\ \A t \in AuthTokens :
                (SpotifySetAccessToken(t) \/ YouTubeSetAccessToken(t)) =>
                    (IsAuthenticated(source)' <=> t # "null")
          /\ (IsAuthenticated(source)' # IsAuthenticated(source)) =>
                \E t \in AuthTokens : SpotifySetAccessToken(t) \/ YouTubeSetAccessToken(t)]_vars

C22_Witness ==
    /\ source = "youtube"
    /\ ytToken = "null"
    /\ ~IsAuthenticated(source)
    /\ \E c \in Callers : calls[c].pc = "settled" /\ calls[c].outcome = "ok"

(***************************************************************************)
(* Failures inside checkForUpdates (SpecUpdates).                          *)
(***************************************************************************)
\* The settled call was rejected: a failure and no items.
RejectedWith(result, failures) ==
    /\ result.outcome \in failures
    /\ result.op = "checkForUpdates"
    /\ result.delegated
    /\ result.result = <<>>

\* The page response lets the loop of fetchUpdatesSince go round again.
AsksForAnotherPage(size, endless) ==
    /\ YouTubePageResponse(TRUE, size, endless)
    /\ YtProviderPage(ytCall.cursor, size, endless).nextPageToken # <<>>
    /\ ~ScanPage(MapPlaylistItems(YtProviderPage(ytCall.cursor, size, endless).items),
                 ytCall.marker, ytCall.allNew).found

\* C23: a failed channel resolution or page fetch of YouTube's
\* checkForUpdates (a response that is not ok, or the token gone when the next
\* request is due) and a failed feed refresh of the podcast adapter's reject
\* the whole call: it settles with the failure and with no items, whatever
\* earlier pages gave.
C23_FailureRejects ==
    /\ [](last.outcome \in {"error", "unauthenticated"} => last.result = <<>>)
    /\ [][/\ PodcastFetchSettles(FALSE) => RejectedWith(last', {"error"})
          /\ YouTubeChannelsResponse("error") => RejectedWith(last', {"error"})
          /\ \A size \in 1..MaxLen, endless \in BOOLEAN :
                /\ YouTubePageResponse(FALSE, size, endless) =>
                       RejectedWith(last', {"error"})
                /\ (AsksForAnotherPage(size, endless) /\ ytToken \in {"null", ""}) =>
                       RejectedWith(last', {"unauthenticated"})
          /\ \A m \in Markers :
                (YouTubeCheckForUpdates(ChannelId, m) /\ ytToken \in {"null", ""}) =>
                    RejectedWith(last', {"unauthenticated"})]_vars

C23_Witness ==
    /\ RejectedWith(last, {"unauthenticated"})
    /\ last.adapter = "youtube"
    /\ last.pages >= 1
    /\ last.requests >= 2

(***************************************************************************)
(* The YouTube auth module (auth/youtube): the PKCE code verifier in       *)
(* sessionStorage, the tokens in localStorage, handleYouTubeCallback and   *)
(* getYouTubeToken cut at their token-endpoint request. Time is in         *)
(* milliseconds and passes a second at a time.                             *)
(***************************************************************************)
\* The clock of the model stops here.
MaxNow == 1000
\* getYouTubeToken refreshes a token that expires within five minutes.
RefreshMargin == 5 * 60 * 1000

Verifiers == {"v1"}
AccessTokens == {"at1", "at2"}
\* refresh_token of a token response: left out, or a token.
RefreshTokens == {"null", "rt1"}
\* expires_in of a token response, in seconds, around the margin.
ExpiresIn == {299, 301}
TokenData == [access_token : AccessTokens, refresh_token : RefreshTokens,
              expires_in : ExpiresIn]
\* How the request to the token endpoint ends: ok, not ok, or fetch throws.
TokenResponses == {"ok", "notok", "thrown"}

\* Mutant: the verifier stays in sessionStorage until the exchange succeeds.
VerifierKept(verifier) == verifier

\* sessionStorage.removeItem(STORAGE_KEY_VERIFIER), before the exchange.
VerifierRead(verifier) == "null"

\* Mutant: a token is refreshed only once it has expired.
NeedsRefreshOnceExpired(tokens, t) == tokens.expiresAt - t < 0

\* The test of getYouTubeToken: the token expires within five minutes.
NeedsRefresh(tokens, t) == tokens.expiresAt - t < RefreshMargin

\* StoredTokens as handleYouTubeCallback builds them from the response.
TokensOf(data, t) ==
    [stored |-> TRUE, accessToken |-> data.access_token,
     refreshToken |-> data.refresh_token, expiresAt |-> t + data.expires_in * 1000]

\* The tokens getYouTubeToken writes back after a refresh.
Refreshed(tokens, data, t) ==
    [tokens EXCEPT !.accessToken = data.access_token,
                   !.expiresAt = t + data.expires_in * 1000]

\* A settled call: what it found stored when it began and when, what it
\* returned, its requests and the response to them.
AuthSettled(c, op, outcome, result, requests, before, at, resp, data) ==
    [caller |-> c, op |-> op, outcome |-> outcome, result |-> result,
     requests |-> requests, before |-> before, at |-> at, resp |-> resp, data |-> data]

NoData == [access_token |-> "null", refresh_token |-> "null", expires_in |-> 0]

Passes ==
    /\ now + 1000 <= MaxNow
    /\ now' = now + 1000
    /\ UNCHANGED <<storedTokens, codeVerifier, auth, authLast>>

\* startYouTubeAuth up to the redirect: a fresh verifier is stored.
StartYouTubeAuth(v) ==
    /\ codeVerifier' = v
    /\ UNCHANGED <<storedTokens, now, auth, authLast>>

ClearYouTubeAuth ==
    /\ storedTokens' = NoTokens
    /\ UNCHANGED <<codeVerifier, now, auth, authLast>>

\* handleYouTubeCallback up to the exchange request.
HandleYouTubeCallback(c) ==
    /\ auth[c] = NoCall
    /\ IF codeVerifier \in {"null", ""}
       THEN /\ authLast' = AuthSettled(c, "handleYouTubeCallback", "missing verifier",
                                       "null", 0, storedTokens, now, "none", NoData)
            /\ UNCHANGED <<codeVerifier, auth>>
       ELSE /\ codeVerifier' = VerifierRead(codeVerifier)
            /\ auth' = [auth EXCEPT ![c] =
                  [pc |-> "exchange", op |-> "handleYouTubeCallback",
                   verifier |-> codeVerifier, requests |-> 1, at |-> now]]
            /\ UNCHANGED authLast
    /\ UNCHANGED <<storedTokens, now>>

\* The exchange settles: only an ok response stores tokens.
CallbackResponse(c, resp, data) ==
    /\ auth[c].pc = "exchange"
    /\ auth' = [auth EXCEPT ![c] = NoCall]
    /\ IF resp = "ok"
       THEN /\ storedTokens' = TokensOf(data, now)
            /\ authLast' = AuthSettled(c, auth[c].op, "ok", data.access_token,
                                       auth[c].requests, storedTokens, auth[c].at, resp, data)
       ELSE /\ authLast' = AuthSettled(c, auth[c].op, "exchange failed", "null",
                                       auth[c].requests, storedTokens, auth[c].at, resp,
                                       NoData)
            /\ UNCHANGED storedTokens
    /\ UNCHANGED <<codeVerifier, now>>

\* getYouTubeToken up to its return or its refresh request.
GetYouTubeToken(c) ==
    /\ auth[c] = NoCall
    /\ LET tokens == storedTokens
           Returns(result) ==
               AuthSettled(c, "getYouTubeToken", "ok", result, 0, tokens, now, "none",
                           NoData)
       IN  IF ~tokens.stored
           THEN /\ authLast' = Returns("null")
                /\ UNCHANGED <<storedTokens, auth>>
           ELSE IF ~NeedsRefresh(tokens, now)
           THEN /\ authLast' = Returns(tokens.accessToken)
                /\ UNCHANGED <<storedTokens, auth>>
           ELSE IF tokens.refreshToken \in {"null", ""}
           THEN /\ storedTokens' = NoTokens
                /\ authLast' = Returns("null")
                /\ UNCHANGED auth
           ELSE /\ auth' = [auth EXCEPT ![c] =
                      [pc |-> "refresh", op |-> "getYouTubeToken", tokens |-> tokens,
                       requests |-> 1, at |-> now]]
                /\ UNCHANGED <<storedTokens, authLast>>
    /\ UNCHANGED <<codeVerifier, now>>

\* The refresh settles: an ok response is written back over the tokens read at
\* the start, anything else clears the stored tokens.
RefreshResponse(c, resp, data) ==
    /\ auth[c].pc = "refresh"
    /\ auth' = [auth EXCEPT ![c] = NoCall]
    /\ IF resp = "ok"
       THEN /\ storedTokens' = Refreshed(auth[c].tokens, data, now)
            /\ authLast' = AuthSettled(c, auth[c].op, "ok", data.access_token,
                                       auth[c].requests, auth[c].tokens, auth[c].at, resp,
                                       data)
       ELSE /\ storedTokens' = NoTokens
            /\ authLast' = AuthSettled(c, auth[c].op, "ok", "null", auth[c].requests,
                                       auth[c].tokens, auth[c].at, resp, NoData)
    /\ UNCHANGED <<codeVerifier, now>>

HasYouTubeTokens == storedTokens # NoTokens

elseTokens == <<envVars, spotifyVars, ytVars, podVars, histVars, pagingVars, queueVars,
                schedVars, apiVars, feedVars, parseVars, hookVars>>

NextTokens ==
    \/ Passes /\ UNCHANGED elseTokens
    \/ \E v \in Verifiers : StartYouTubeAuth(v) /\ UNCHANGED elseTokens
    \/ ClearYouTubeAuth /\ UNCHANGED elseTokens
    \/ \E c \in Callers : HandleYouTubeCallback(c) /\ UNCHANGED elseTokens
    \/ \E c \in Callers, data \in TokenData :
          CallbackResponse(c, "ok", data) /\ UNCHANGED elseTokens
    \/ \E c \in Callers, resp \in TokenResponses \ {"ok"} :
          CallbackResponse(c, resp, NoData) /\ UNCHANGED elseTokens
    \/ \E c \in Callers : GetYouTubeToken(c) /\ UNCHANGED elseTokens
    \/ \E c \in Callers, data \in TokenData :
          RefreshResponse(c, "ok", data) /\ UNCHANGED elseTokens
    \/ \E c \in Callers, resp \in TokenResponses \ {"ok"} :
          RefreshResponse(c, resp, NoData) /\ UNCHANGED elseTokens

InitTokens == Init /\ source = "youtube"

SpecTokens == InitTokens /\ [][NextTokens]_vars

(***************************************************************************)
(* Properties of the auth module (SpecTokens).                             *)
(***************************************************************************)
\* getYouTubeToken returned `result` to caller c without a request.
ReturnsAtOnce(c, result) ==
    /\ authLast'.caller = c
    /\ authLast'.op = "getYouTubeToken"
    /\ authLast'.result = result
    /\ authLast'.requests = 0
    /\ auth'[c] = NoCall

\* C24: getYouTubeToken returns null when no tokens are stored; returns the
\* stored access token, with no request and storage untouched, when they
\* expire five minutes or more from now; when they expire sooner it returns
\* the refreshed access token and stores it with its new expiry beside the
\* old refresh token if the refresh succeeds, and otherwise (no refresh
\* token, a response that is not ok, a request that throws) returns null and
\* removes the stored tokens.
C24_TokenOrRefreshOrNull ==
    [][\A c \in Callers :
        /\ GetYouTubeToken(c) =>
             /\ ~storedTokens.stored =>
                    ReturnsAtOnce(c, "null") /\ storedTokens' = storedTokens
             /\ (storedTokens.stored /\ storedTokens.expiresAt - now >= 300000) =>
                    ReturnsAtOnce(c, storedTokens.accessToken) /\ storedTokens' = storedTokens
             /\ (storedTokens.stored /\ storedTokens.expiresAt - now < 300000) =>
                    IF storedTokens.refreshToken \in {"null", ""}
                    THEN ReturnsAtOnce(c, "null") /\ storedTokens' = NoTokens
                    ELSE /\ auth'[c].pc = "refresh"
                         /\ auth'[c].requests = 1
                         /\ storedTokens' = storedTokens
                         /\ authLast' = authLast
        /\ \A data \in TokenData :
             RefreshResponse(c, "ok", data) =>
                /\ authLast'.caller = c
                /\ authLast'.result = data.access_token
                /\ storedTokens' = [stored |-> TRUE, accessToken |-> data.access_token,
                                    refreshToken |-> auth[c].tokens.refreshToken,
                                    expiresAt |-> now + data.expires_in * 1000]
        /\ \A resp \in {"notok", "thrown"} :
             RefreshResponse(c, resp, NoData) =>
                /\ authLast'.caller = c
                /\ authLast'.result = "null"
                /\ storedTokens' = NoTokens]_vars

C24_Witness ==
    /\ authLast.op = "getYouTubeToken"
    /\ authLast.resp = "ok"
    /\ authLast.before.expiresAt - authLast.at = 299000
    /\ authLast.before.accessToken # authLast.result
    /\ storedTokens.stored
    /\ storedTokens.accessToken = authLast.result
    /\ storedTokens.refreshToken = authLast.before.refreshToken

\* C25: handleYouTubeCallback without a stored code verifier rejects with no
\* request and no token write; with one, the verifier is removed before the
\* exchange is requested and stays removed whether the exchange succeeds or
\* fails, so a second call fails for the missing verifier; tokens are written
\* only when the exchange succeeded.
C25_VerifierUsedOnce ==
    [][\A c \in Callers :
        /\ HandleYouTubeCallback(c) =>
             /\ codeVerifier' = "null"
             /\ storedTokens' = storedTokens
             /\ IF codeVerifier = "null"
                THEN /\ authLast'.caller = c
                     /\ authLast'.outcome = "missing verifier"
                     /\ authLast'.requests = 0
                     /\ auth'[c] = NoCall
                ELSE /\ auth'[c].pc = "exchange"
                     /\ auth'[c].verifier = codeVerifier
        /\ \A data \in TokenData :
             CallbackResponse(c, "ok", data) =>
                /\ codeVerifier' = codeVerifier
                /\ authLast'.outcome = "ok"
                /\ storedTokens'.stored
                /\ storedTokens'.accessToken = data.access_token
        /\ \A resp \in {"notok", "thrown"} :
             CallbackResponse(c, resp, NoData) =>
                /\ codeVerifier' = codeVerifier
                /\ authLast'.outcome = "exchange failed"
                /\ storedTokens' = storedTokens]_vars

C25_Witness ==
    /\ authLast.op = "handleYouTubeCallback"
    /\ authLast.outcome = "missing verifier"
    /\ codeVerifier = "null"
    /\ \E c \in Callers : auth[c].pc = "exchange" /\ c # authLast.caller

(***************************************************************************)
(* The page requests of one YouTube checkForUpdates call (SpecUpdates).    *)
(***************************************************************************)
\* The step issues a playlistItems request carrying `pageToken`.
RequestsPage(pageToken) ==
    /\ ytCall'.pc = "page"
    /\ ytCall'.cursor = pageToken
    /\ ytCall'.requests = (IF ytCall = NoCall THEN 0 ELSE ytCall.requests) + 1

\* The step issues no playlistItems request.
RequestsNoPage ==
    \/ ytCall' = NoCall
    \/ ytCall' = ytCall
    \/ ytCall'.pc = "channels"

\* C26: the page requests of one YouTube checkForUpdates call go out one at a
\* time: the first without a page token, each later one with exactly the
\* nextCursor of the page answered just before, and none after the page that
\* holds the marker or a page without nextCursor.
C26_PagesInSequence ==
    [][/\ \A m \in Markers :
            YouTubeCheckForUpdates(ChannelId, m) => (RequestsPage(<<>>) \/ RequestsNoPage)
       /\ \A resp \in {"ok", "error", "empty"} :
            YouTubeChannelsResponse(resp) => (RequestsPage(<<>>) \/ RequestsNoPage)
       /\ \A ok \in BOOLEAN, size \in 1..MaxLen, endless \in BOOLEAN :
            YouTubePageResponse(ok, size, endless) =>
                LET data == YtProviderPage(ytCall.cursor, size, endless)
                    holdsMarker == \E i \in 1..Len(data.items) :
                                      data.items[i].guid = ytCall.marker
                IN  IF ok /\ ~holdsMarker /\ data.nextPageToken # <<>> /\ ytToken = "tok"
                    THEN RequestsPage(data.nextPageToken)
                    ELSE ytCall' = NoCall
       /\ (ytCall # NoCall /\ ytCall' # NoCall) => ytCall'.requests <= ytCall.requests + 1
       /\ (ytCall.pc = "page" /\ ytCall' # NoCall /\ ytCall'.requests > ytCall.requests) =>
             \E size \in 1..MaxLen, endless \in BOOLEAN :
                 YouTubePageResponse(TRUE, size, endless)]_vars

C26_Witness ==
    /\ ytCall.pc = "page"
    /\ ytCall.pages >= 2
    /\ ytCall.cursor # <<>>
    /\ ~ytCall.found

(***************************************************************************)
(* removeFeed against a fetch in flight (SpecFeeds).                       *)
(***************************************************************************)
\* C27: once removeFeed(url) has returned true, url stays out of the mapping
\* until an operation is next invoked for it: a refreshFeed, addFeed,
\* getCollectionItems or checkForUpdates call for url that was already in
\* flight does not put the feed back when its fetch settles.
C27_RemovedStaysRemoved ==
    (feedOp.op \in FetchOps /\ feedOp.requests = 1 /\ feedOp.removed) =>
        FeedIndex(feeds, feedOp.url) = 0

(***************************************************************************)
(* The hook useRecentMedia. A render with new props runs the cleanup of    *)
(* the previous effect and then the effect; the state the effect and the   *)
(* promise callbacks set reaches loadMore's closure with the next render.  *)
(* A page of a source holds one item, named by the source and the page.    *)
(***************************************************************************)
\* getRecentMedia requests the hook may issue in the model.
MaxRequests == 3
\* The last page a provider's cursor names.
MaxPages == 2

\* The source prop: none, a source that is not authenticated, two that are.
HookSources == {"null", "anon", "s1", "s2"}
HookLimits == {10, 20}

\* source.isAuthenticated()
SourceAuthenticated(s) == s \in {"s1", "s2"}

PageNo(cursor) == IF cursor = <<>> THEN 0 ELSE cursor[1]

\* source.getRecentMedia(undefined, { limit, cursor }) and the `cancelled` flag
\* of the effect run that issued it.
Request(id, kind, src, cursor, limit) ==
    [id |-> id, kind |-> kind, src |-> src, cursor |-> cursor, limit |-> limit,
     cancelled |-> FALSE]

\* The page a source answers a request with.
RecentPage(req, more) ==
    [items |-> <<[src |-> req.src, page |-> PageNo(req.cursor)]>>,
     nextCursor |-> IF more THEN <<PageNo(req.cursor) + 1>> ELSE <<>>]

\* The cleanup the effect returned: () => { cancelled = true; }
Cleanup(reqs, id) ==
    {IF r.id = id THEN [r EXCEPT !.cancelled = TRUE] ELSE r : r \in reqs}

\* What a render hands to loadMore's closure.
Snapshot(p, h) ==
    [source |-> p.source, limit |-> p.limit, nextCursor |-> h.nextCursor,
     isLoading |-> h.isLoading]

\* hasMore: nextCursor !== undefined
HasMore(h) == h.nextCursor # <<>>

Did(op, src, late, changed) ==
    [op |-> op, src |-> src, late |-> late, changed |-> changed]

elseHook == <<envVars, spotifyVars, ytVars, podVars, histVars, pagingVars, queueVars,
              schedVars, apiVars, feedVars, parseVars, authVars>>

\* A render with another source or limit: the dependencies of the effect
\* changed, so the previous cleanup runs and then the effect.
UseRecentMedia(s, l) ==
    /\ <<s, l>> # <<props.source, props.limit>>
    /\ props' = [source |-> s, limit |-> l]
    /\ view' = Snapshot([source |-> s, limit |-> l], hook)
    /\ LET cleaned == Cleanup(pending, effect.cleanup)
           id == effect.requests + 1
       IN  IF s = hook.lastSource
           THEN /\ hook' = hook
                /\ pending' = cleaned
                /\ effect' = [effect EXCEPT !.cleanup = 0]
           ELSE IF s = "null" \/ ~SourceAuthenticated(s)
           THEN /\ hook' = [hook EXCEPT !.lastSource = s, !.items = <<>>,
                                        !.error = "null", !.nextCursor = <<>>]
                /\ pending' = cleaned
                /\ effect' = [effect EXCEPT !.cleanup = 0]
           ELSE /\ id <= MaxRequests
                /\ hook' = [hook EXCEPT !.lastSource = s, !.isLoading = TRUE,
                                        !.error = "null"]
                /\ pending' = cleaned \cup {Request(id, "initial", s, <<>>, l)}
                /\ effect' = [cleanup |-> id, requests |-> id]
    /\ UNCHANGED <<hookLast, elseHook>>

\* The re-render React schedules after a state update.
Render ==
    /\ view # Snapshot(props, hook)
    /\ view' = Snapshot(props, hook)
    /\ UNCHANGED <<props, hook, pending, effect, hookLast, elseHook>>

\* loadMore as the latest render defined it, up to its request.
LoadMore ==
    /\ IF view.source = "null" \/ view.nextCursor = <<>> \/ view.isLoading
       THEN /\ hookLast' = Did("loadMore", view.source, FALSE, FALSE)
            /\ UNCHANGED <<hook, pending, effect>>
       ELSE /\ effect.requests < MaxRequests
            /\ hook' = [hook EXCEPT !.isLoading = TRUE]
            /\ pending' = pending \cup {Request(effect.requests + 1, "more", view.source,
                                                view.nextCursor, view.limit)}
            /\ effect' = [effect EXCEPT !.requests = @ + 1]
            /\ hookLast' = Did("loadMore", view.source, FALSE, TRUE)
    /\ UNCHANGED <<props, view, elseHook>>

\* The state after the callbacks of a settled request ran.
AfterSettled(h, r, ok, page) ==
    IF r.kind = "initial"
    THEN IF r.cancelled THEN h
         ELSE IF ok
              THEN [h EXCEPT !.items = page.items, !.nextCursor = page.nextCursor,
                             !.isLoading = FALSE]
              ELSE [h EXCEPT !.error = "failed", !.isLoading = FALSE]
    ELSE IF ok
         THEN [h EXCEPT !.items = @ \o page.items, !.nextCursor = page.nextCursor,
                        !.isLoading = FALSE]
         ELSE [h EXCEPT !.error = "failed", !.isLoading = FALSE]

\* A request settles: with a page (and a cursor while pages remain) or rejected.
Settles(r, ok, more) ==
    /\ r \in pending
    /\ more => (ok /\ PageNo(r.cursor) < MaxPages)
    /\ pending' = pending \ {r}
    /\ hook' = AfterSettled(hook, r, ok, RecentPage(r, more))
    /\ hookLast' = Did(r.kind, r.src, r.src # props.source,
                       <<hook'.items, hook'.nextCursor, hook'.error>> #
                       <<hook.items, hook.nextCursor, hook.error>>)
    /\ UNCHANGED <<props, view, effect, elseHook>>

InitHook == Init /\ source = "youtube"

NextHook ==
    \/ \E s \in HookSources, l \in HookLimits : UseRecentMedia(s, l)
    \/ Render
    \/ LoadMore
    \/ \E r \in pending, ok \in BOOLEAN, more \in BOOLEAN : Settles(r, ok, more)

SpecHook == InitHook /\ [][NextHook]_vars

\* Every request the hook issued settles, and React renders after a state update.
SpecHookFair ==
    /\ SpecHook
    /\ WF_vars(\E r \in pending, ok \in BOOLEAN, more \in BOOLEAN : Settles(r, ok, more))
    /\ WF_vars(Render)

(***************************************************************************)
(* Properties of useRecentMedia (SpecHook, SpecHookFair).                  *)
(***************************************************************************)
\* C28: items holds results of the current source only: a getRecentMedia
\* response, of the initial fetch or of loadMore, that settles after the
\* source prop changed or became null is discarded and changes neither items,
\* nextCursor nor error.
C28_OnlyCurrentSource ==
    /\ \A i \in 1..Len(hook.items) : hook.items[i].src = props.source
    /\ (hookLast.op \in {"initial", "more"} /\ hookLast.late) => ~hookLast.changed

\* No request is in flight that the hook still listens to.
Quiet == \A r \in pending : r.cancelled

\* The initial load of the current source has settled: its first page is
\* shown or the error is set.
Loaded ==
    /\ ~hook.isLoading
    /\ \/ hook.error # "null"
       \/ /\ hook.items # <<>>
          /\ hook.items[1] = [src |-> props.source, page |-> 0]

\* C29: every initial load settles: with an authenticated source current and
\* every request settling, the hook comes to isLoading false with that
\* source's first page in items or with error set; isLoading is not left true
\* with no request in flight, whether the source changed, became null, or the
\* effect ran again for the same source while a request was pending.
C29_LoadSettles ==
    /\ [](SourceAuthenticated(props.source) => <>(Loaded \/ ~SourceAuthenticated(props.source)))
    /\ [](hook.isLoading => <>(~hook.isLoading \/ ~Quiet))

\* C30: loadMore does nothing without a source, without nextCursor or while
\* a load is in progress, and otherwise appends the next page after the items
\* already there; at most one page request is in flight at a time, so no
\* cursor is asked for twice and no page is appended twice, even when
\* loadMore is called again before the hook rendered again; hasMore is true
\* exactly when nextCursor is defined.
C30_OnePageAtATime ==
    /\ Cardinality({r \in pending : ~r.cancelled}) <= 1
    /\ \A i, j \in 1..Len(hook.items) : hook.items[i] = hook.items[j] => i = j
    /\ \A q, r \in pending :
          (q.kind = "more" /\ r.kind = "more" /\ q.src = r.src /\ q.cursor = r.cursor) => q = r
    /\ HasMore(hook) <=> hook.nextCursor # <<>>

====
